---- MODULE Spec2Model ----
(***************************************************************************)
(* Entitlement, progress and achievement engine of the course platform     *)
(* backend (src/src/db/db.rs).  The relational store is modelled as the    *)
(* record db of committed tables.  Every request runs as a process that    *)
(* executes its SQL statements one at a time inside a READ COMMITTED       *)
(* transaction: a statement reads the committed tables overlaid with the   *)
(* transaction's own pending writes (its log), a write locks the row it    *)
(* touches until commit or rollback, and commit replays the log onto the   *)
(* committed tables.                                                       *)
(***************************************************************************)
EXTENDS Integers, Sequences, FiniteSets, TLC

\* ------------------------------------------------------------------ bounds
NProcs == 2
MaxTime == 2
MaxOps == 3

\* ------------------------------------------------------------ identifiers
Procs == 1..NProcs
Users == {"u1", "u2"}
Courses == {"c1", "c2", "c3"}
LessonIds == {"l1", "l2", "l3", "l4", "l5", "l6", "l7"}
AchIds == {"a1", "a2", "a3", "a4", "a5", "a6", "a7", "a8"}
PaypalIds == {"I-1", "I-2"}
Times == 0..MaxTime
NULL == 0 - 1
NONE == "none"

\* lessons.module_id -> modules.course_id, the two joins collapsed: c1 has two
\* lessons, c2 one and c3 four
CourseOf(l) == IF l = "l3" THEN "c2"
               ELSE IF l \in {"l4", "l5", "l6", "l7"} THEN "c3" ELSE "c1"

\* the achievement table: trigger_type, trigger_value, active
achievement ==
  [a \in AchIds |->
     CASE a = "a1" -> [trigger_type |-> "lesson_completed", trigger_value |-> 1, active |-> TRUE]
       [] a = "a2" -> [trigger_type |-> "lesson_completed", trigger_value |-> 2, active |-> TRUE]
       [] a = "a3" -> [trigger_type |-> "lesson_completed", trigger_value |-> 1, active |-> FALSE]
       [] a = "a4" -> [trigger_type |-> "course_completed", trigger_value |-> 1, active |-> TRUE]
       [] a = "a5" -> [trigger_type |-> "courses_enrolled", trigger_value |-> 1, active |-> TRUE]
       [] a = "a6" -> [trigger_type |-> "custom", trigger_value |-> 2, active |-> TRUE]
       [] a = "a7" -> [trigger_type |-> "comments_created", trigger_value |-> 1, active |-> TRUE]
       [] OTHER    -> [trigger_type |-> "login_streak", trigger_value |-> 2, active |-> TRUE]]

TriggerKinds == {"course_completed", "lesson_completed", "courses_enrolled",
                 "comments_created", "login_streak", "custom"}

\* ------------------------------------------------------------------- rows
NoUA == [exists |-> FALSE, earned |-> FALSE, earned_at |-> NULL]
NoULP == [exists |-> FALSE, is_completed |-> FALSE, progress |-> NULL, completed_at |-> NULL]
NoCP == [exists |-> FALSE, progress_percentage |-> 0, total_lessons |-> 0,
         completed_lessons |-> 0, completed_at |-> NULL, last_accessed |-> NULL]
NoSub == [exists |-> FALSE, user_id |-> NONE, status |-> FALSE, end_time |-> NULL]
\* user_stats has one row at most for a (user_id, stat_type): the conflict
\* target of increment_user_stat
StatTypes == {"logins", "comments"}
NoStat == [exists |-> FALSE, value |-> 0]
\* users.email, and the strings Uuid::new_v4().to_string() can give as
\* verification_token
Emails == {"u1@mail", "u2@mail"}
ResetTokens == {"t1", "t2"}

VARIABLES db, proc, now, ops, prev, token_cache, provider

vars == <<db, proc, now, ops, prev, token_cache, provider>>

EmptyDB ==
  [role |-> [u \in Users |-> "user"],
   lessons |-> LessonIds,
   user_lesson_progress |-> [k \in Users \X LessonIds |-> NoULP],
   course_progress |-> [k \in Users \X Courses |-> NoCP],
   user_courses |-> [k \in Users \X Courses |-> 0],
   payments |-> [k \in Users \X Courses |-> 0],
   students |-> [c \in Courses |-> 0],
   subscription |-> [s \in PaypalIds |-> NoSub],
   user_achievement |-> [k \in Users \X AchIds |-> NoUA],
   user_stats |-> [k \in Users \X StatTypes |-> NoStat],
   email |-> [u \in Users |-> IF u = "u1" THEN "u1@mail" ELSE "u2@mail"],
   password |-> [u \in Users |-> 0],
   verification_token |-> [u \in Users |-> NONE],
   token_expiry |-> [u \in Users |-> NULL],
   lesson_comments |-> [u \in Users |-> 0],
   login_streak |-> [u \in Users |-> 0]]

\* a session token: whether it carries the server's signature, its exp claim
\* and its sub claim; NoJwt stands where a request carries none
NoJwt == [signed |-> FALSE, exp |-> NULL, sub |-> NONE]
NoCookie == [some |-> FALSE, value |-> NoJwt]
NoHeader == [scheme |-> NONE, value |-> NoJwt]

\* AppState.token_cache: None, or the CachedToken; holder is the worker that
\* holds the lock across statements, 0 for none
NoToken == [some |-> FALSE, access_token |-> 0, expires_at |-> 0, holder |-> 0]

\* the request served last and the course progress row it left
NoPrev == [op |-> NONE, u |-> NONE, x |-> NONE, b |-> FALSE, n |-> 0, res |-> NONE, row |-> NoCP]

Idle ==
  [pc |-> "idle", op |-> NONE, u |-> NONE, x |-> NONE, b |-> FALSE, n |-> 0,
   t0 |-> 0, log |-> <<>>, locks |-> {}, c |-> NONE, total |-> 0, completed |-> 0,
   pct |-> 0, kind |-> NONE, metric |-> 0, cands |-> <<>>, awarded |-> {}, earned0 |-> {},
   todo |-> <<>>, res |-> NONE,
   seen |-> 0, fetched |-> FALSE, tok |-> 0, exp |-> 0, ret |-> 0,
   headers |-> {}, sig |-> NONE, called |-> FALSE, verified |-> FALSE,
   cookie |-> NoCookie, authorization |-> NoHeader, failed |-> FALSE, status |-> NONE,
   evaluated |-> {}, committed |-> FALSE]

\* --------------------------------------------------- transaction machinery
\* one pending write of a transaction; the fields an operation does not use are 0
W(op, u, x, b, n1, n2, n3, t) ==
  [op |-> op, u |-> u, x |-> x, b |-> b, n1 |-> n1, n2 |-> n2, n3 |-> n3, t |-> t]

\* INSERT .. ON CONFLICT (user_id, achievement_id) DO UPDATE SET earned = true,
\* earned_at = COALESCE(user_achievement.earned_at, NOW()) WHERE user_achievement.earned = false
AwardRow(row, t) ==
  IF ~row.exists THEN [exists |-> TRUE, earned |-> TRUE, earned_at |-> t]
  ELSE IF row.earned = FALSE
       THEN [row EXCEPT !.earned = TRUE,
                        !.earned_at = IF row.earned_at = NULL THEN t ELSE row.earned_at]
       ELSE row

\* RETURNING true: a row comes back only when the insert or the update took place
WasAwardedAlways(row) == TRUE

WasAwarded(row) == ~row.exists \/ row.earned = FALSE

\* INSERT INTO user_lesson_progress .. ON CONFLICT (user_id, lesson_id) DO UPDATE:
\* the insert leaves completed_at to its default, the update stamps it whenever
\* is_completed is true
LessonProgressRow(row, is_completed, progress, t) ==
  IF ~row.exists
  THEN [exists |-> TRUE, is_completed |-> is_completed, progress |-> progress,
        completed_at |-> NULL]
  ELSE [row EXCEPT !.is_completed = is_completed, !.progress = progress,
                   !.completed_at = IF is_completed = TRUE THEN t ELSE row.completed_at]

\* INSERT INTO course_progress .. ON CONFLICT (user_id, course_id) DO UPDATE: the
\* update sets the percentage and the completed count, not total_lessons
CourseProgressRowPatched(row, progress_percentage, total_lessons, completed_lessons, t) ==
  IF ~row.exists
  THEN [exists |-> TRUE, progress_percentage |-> progress_percentage,
        total_lessons |-> total_lessons, completed_lessons |-> completed_lessons,
        completed_at |-> NULL, last_accessed |-> t]
  ELSE [row EXCEPT !.progress_percentage = progress_percentage,
                   !.completed_lessons = row.completed_lessons + completed_lessons,
                   !.last_accessed = t,
                   !.completed_at = IF progress_percentage = 100 THEN t
                                    ELSE row.completed_at]

CourseProgressRow(row, progress_percentage, total_lessons, completed_lessons, t) ==
  IF ~row.exists
  THEN [exists |-> TRUE, progress_percentage |-> progress_percentage,
        total_lessons |-> total_lessons, completed_lessons |-> completed_lessons,
        completed_at |-> NULL, last_accessed |-> t]
  ELSE [row EXCEPT !.progress_percentage = progress_percentage,
                   !.completed_lessons = completed_lessons,
                   !.last_accessed = t,
                   !.completed_at = IF progress_percentage = 100 THEN t
                                    ELSE row.completed_at]

\* the effect of one pending write on the tables
Apply(d, w) ==
  CASE w.op = "ua_award" ->
         [d EXCEPT !.user_achievement[<<w.u, w.x>>] = AwardRow(@, w.t)]
    [] w.op = "ulp_upsert" ->
         [d EXCEPT !.user_lesson_progress[<<w.u, w.x>>] = LessonProgressRow(@, w.b, w.n1, w.t)]
    [] w.op = "cp_upsert" ->
         [d EXCEPT !.course_progress[<<w.u, w.x>>] = CourseProgressRow(@, w.n1, w.n2, w.n3, w.t)]
    [] w.op = "cp_insert" ->
         [d EXCEPT !.course_progress[<<w.u, w.x>>] =
            [exists |-> TRUE, progress_percentage |-> 0, total_lessons |-> w.n2,
             completed_lessons |-> 0, completed_at |-> NULL, last_accessed |-> w.t]]
    [] w.op = "pay_insert" ->
         [d EXCEPT !.payments[<<w.u, w.x>>] = @ + 1]
    [] w.op = "uc_insert" ->
         [d EXCEPT !.user_courses[<<w.u, w.x>>] = @ + 1]
    [] w.op = "students_inc" ->
         [d EXCEPT !.students[w.x] = @ + 1]
    [] w.op = "sub_status" ->
         [d EXCEPT !.subscription[w.x].status = w.b]
    [] w.op = "stat_upsert" ->
         [d EXCEPT !.user_stats[<<w.u, w.x>>] = [exists |-> TRUE, value |-> @.value + 1]]
    [] OTHER -> d

RECURSIVE Replay(_, _)
Replay(d, log) ==
  IF log = <<>> THEN d ELSE Replay(Apply(d, Head(log)), Tail(log))

\* what a statement of process p reads: committed rows and p's own writes
View(p) == Replay(db, proc[p].log)

\* a row is locked by the transaction that wrote it until that one ends
LockedByOther(p, key) == \E q \in Procs \ {p} : key \in proc[q].locks

UAKey(u, a) == <<"user_achievement", u, a>>
ULPKey(u, l) == <<"user_lesson_progress", u, l>>
CPKey(u, c) == <<"course_progress", u, c>>
CourseKey(c) == <<"courses", c, c>>
SubKey(s) == <<"subscription", s, s>>
UCKey(u, c) == <<"user_courses", u, c>>
StatKey(u, s) == <<"user_stats", u, s>>

\* a request that ended: its transaction is over, committed or rolled back
Finish(r, res) == [r EXCEPT !.pc = "done", !.log = <<>>, !.locks = {}, !.res = res]

\* a worker takes a request
Request(op, u, x, b, n) ==
  [Idle EXCEPT !.op = op, !.u = u, !.x = x, !.b = b, !.n = n, !.t0 = now]

\* ------------------------------------------------ check_and_award_achievements
\* 1. the user's current value for the trigger kind
CompletedCourses(d, u) ==
  {c \in Courses :
     /\ d.user_courses[<<u, c>>] > 0
     /\ LET done == {l \in d.lessons : CourseOf(l) = c
                        /\ d.user_lesson_progress[<<u, l>>].exists
                        /\ d.user_lesson_progress[<<u, l>>].is_completed}
            all == {l \in d.lessons : CourseOf(l) = c}
        IN  done # {} /\ Cardinality(done) = Cardinality(all)}

CompletedLessons(d, u) ==
  {l \in LessonIds : d.user_lesson_progress[<<u, l>>].exists
                     /\ d.user_lesson_progress[<<u, l>>].is_completed}

RECURSIVE SumOver(_, _)
SumOver(f, S) ==
  IF S = {} THEN 0
  ELSE LET k == CHOOSE k \in S : TRUE IN f[k] + SumOver(f, S \ {k})

FallbackValueZero(value) == IF value = NULL THEN 0 ELSE value

\* value.unwrap_or(1)
FallbackValue(value) == IF value = NULL THEN 1 ELSE value

CurrentValue(d, u, action, fallback_value) ==
  CASE action = "course_completed" -> Cardinality(CompletedCourses(d, u))
    [] action = "lesson_completed" -> Cardinality(CompletedLessons(d, u))
    [] action = "courses_enrolled" ->
         SumOver(d.user_courses, {k \in Users \X Courses : k[1] = u})
    [] action = "comments_created" -> d.lesson_comments[u]
    [] action = "login_streak" -> d.login_streak[u]
    [] OTHER -> fallback_value

\* 2. the achievements the value reaches
ReachableIgnoringActive(action, current_value) ==
  {a \in AchIds : /\ achievement[a].trigger_type = action
                  /\ achievement[a].trigger_value <= current_value}

Reachable(action, current_value) ==
  {a \in AchIds : /\ achievement[a].trigger_type = action
                  /\ achievement[a].trigger_value <= current_value
                  /\ achievement[a].active = TRUE}

\* the rows of a SELECT without ORDER BY come back in any order
Orders(S) == {s \in [1..Cardinality(S) -> S] : \A i, j \in 1..Cardinality(S) : i # j => s[i] # s[j]}

EarnedSet(d, u) == {a \in AchIds : d.user_achievement[<<u, a>>].exists
                                   /\ d.user_achievement[<<u, a>>].earned}

\* pool.begin() and the trigger's aggregate query
CA_Begin(p, u, action, value) ==
  /\ proc[p].pc = "idle"
  /\ ops < MaxOps
  /\ ops' = ops + 1
  /\ proc' = [proc EXCEPT ![p] =
       [Idle EXCEPT !.pc = "ca_select", !.op = "check_and_award_achievements",
                    !.u = u, !.x = action, !.kind = action, !.n = value, !.t0 = now,
                    !.metric = CurrentValue(db, u, action, FallbackValue(value)),
                    !.earned0 = EarnedSet(db, u)]]
  /\ UNCHANGED <<db, now, prev, token_cache, provider>>

CA_Select(p) ==
  /\ proc[p].pc = "ca_select"
  /\ \E order \in Orders(Reachable(proc[p].kind, proc[p].metric)) :
       proc' = [proc EXCEPT ![p].pc = "ca_loop", ![p].cands = order]
  /\ UNCHANGED <<db, now, ops, prev, token_cache, provider>>

\* 3. one round of the loop: the conditional upsert of the next achievement
CA_Upsert(p) ==
  /\ proc[p].pc = "ca_loop"
  /\ proc[p].cands # <<>>
  /\ LET a == Head(proc[p].cands)
         key == UAKey(proc[p].u, a)
         row == View(p).user_achievement[<<proc[p].u, a>>]
     IN  /\ ~LockedByOther(p, key)
         /\ proc' = [proc EXCEPT
              ![p].cands = Tail(@),
              ![p].locks = @ \cup {key},
              ![p].log = Append(@, W("ua_award", proc[p].u, a, FALSE, 0, 0, 0, proc[p].t0)),
              ![p].awarded = IF WasAwarded(row) THEN @ \cup {a} ELSE @]
  /\ UNCHANGED <<db, now, ops, prev, token_cache, provider>>

\* where a process goes after one check_and_award_achievements call ended:
\* to the next trigger its caller evaluates, or to the end of the request
\* (the callers drop the call's result: let _ = ..)
\* failed notes that a call of the request returned Err
AfterCheckWithQuestionMark(p, r, res) ==
  IF r.todo = <<>> \/ res = "err"
  THEN [r EXCEPT !.pc = "done", !.log = <<>>, !.locks = {}, !.todo = <<>>,
                 !.failed = r.failed \/ res = "err",
                 !.res = res]
  ELSE [r EXCEPT !.pc = "ca_begin", !.log = <<>>, !.locks = {}]

AfterCheck(p, r, res) ==
  IF r.todo = <<>>
  THEN [r EXCEPT !.pc = "done", !.log = <<>>, !.locks = {},
                 !.failed = r.failed \/ res = "err",
                 !.res = IF r.op = "check_and_award_achievements" THEN res ELSE "ok"]
  ELSE [r EXCEPT !.pc = "ca_begin", !.log = <<>>, !.locks = {},
                 !.failed = r.failed \/ res = "err"]

CA_Commit(p) ==
  /\ proc[p].pc = "ca_loop"
  /\ proc[p].cands = <<>>
  /\ db' = View(p)
  /\ proc' = [proc EXCEPT ![p] = AfterCheck(p, proc[p], "ok")]
  /\ UNCHANGED <<now, ops, prev, token_cache, provider>>

\* two transactions each waiting for a row the other locked: the store ends one
\* of them with an error, its writes are rolled back and the call returns Err
WaitsFor(p, q) ==
  /\ proc[p].pc = "ca_loop"
  /\ proc[p].cands # <<>>
  /\ UAKey(proc[p].u, Head(proc[p].cands)) \in proc[q].locks

CA_Deadlock(p) ==
  /\ \E q \in Procs \ {p} : WaitsFor(p, q) /\ WaitsFor(q, p)
  /\ proc' = [proc EXCEPT ![p] =
       AfterCheck(p, [proc[p] EXCEPT !.awarded = {}, !.cands = <<>>], "err")]
  /\ UNCHANGED <<db, now, ops, prev, token_cache, provider>>

\* a statement of the call fails in the store (the connection is lost, the
\* statement is refused): the ? returns Err and the dropped transaction is
\* rolled back
CA_StoreError(p) ==
  /\ proc[p].pc \in {"ca_select", "ca_loop"}
  /\ proc' = [proc EXCEPT ![p] =
       AfterCheck(p, [proc[p] EXCEPT !.awarded = {}, !.cands = <<>>], "err")]
  /\ UNCHANGED <<db, now, ops, prev, token_cache, provider>>

\* a caller's next trigger: check_and_award_achievements(user_id, kind, None)
CA_Next(p) ==
  /\ proc[p].pc = "ca_begin"
  /\ proc' = [proc EXCEPT
       ![p].pc = "ca_select", ![p].kind = Head(proc[p].todo), ![p].todo = Tail(proc[p].todo),
       ![p].evaluated = @ \cup {Head(proc[p].todo)},
       ![p].t0 = now, ![p].awarded = {}, ![p].cands = <<>>,
       ![p].metric = CurrentValue(db, proc[p].u, Head(proc[p].todo), FallbackValue(NULL)),
       ![p].earned0 = EarnedSet(db, proc[p].u)]
  /\ UNCHANGED <<db, now, ops, prev, token_cache, provider>>

\* ------------------------------------- earn_achievement, assign_achievement_to_user
\* INSERT .. VALUES (.., true, $4) ON CONFLICT (user_id, achievement_id)
\* DO UPDATE SET earned = true, earned_at = EXCLUDED.earned_at
EarnRow(row, t) == [exists |-> TRUE, earned |-> TRUE, earned_at |-> t]

earn_achievement(p, u, a) ==
  /\ proc[p].pc = "idle"
  /\ ops < MaxOps
  /\ ~LockedByOther(p, UAKey(u, a))
  /\ ops' = ops + 1
  /\ db' = [db EXCEPT !.user_achievement[<<u, a>>] = EarnRow(@, now)]
  /\ proc' = [proc EXCEPT ![p] = Finish(Request("earn_achievement", u, a, FALSE, 0), "ok")]
  /\ UNCHANGED <<now, prev, token_cache, provider>>

\* INSERT .. VALUES ($1, $2, $3, false, NULL): a second row for the pair is
\* refused by the unique index the ON CONFLICT clauses name
assign_achievement_to_user(p, u, a) ==
  /\ proc[p].pc = "idle"
  /\ ops < MaxOps
  /\ ~LockedByOther(p, UAKey(u, a))
  /\ ops' = ops + 1
  /\ IF db.user_achievement[<<u, a>>].exists
     THEN /\ db' = db
          /\ proc' = [proc EXCEPT ![p] =
               Finish(Request("assign_achievement_to_user", u, a, FALSE, 0), "err")]
     ELSE /\ db' = [db EXCEPT !.user_achievement[<<u, a>>] =
                      [exists |-> TRUE, earned |-> FALSE, earned_at |-> NULL]]
          /\ proc' = [proc EXCEPT ![p] =
               Finish(Request("assign_achievement_to_user", u, a, FALSE, 0), "ok")]
  /\ UNCHANGED <<now, prev, token_cache, provider>>

\* ------------------------------------------------------ update_lesson_progress
LessonsOf(d, c) == {l \in d.lessons : CourseOf(l) = c}

CompletedIn(d, u, c) ==
  {l \in LessonsOf(d, c) : d.user_lesson_progress[<<u, l>>].exists
                           /\ d.user_lesson_progress[<<u, l>>].is_completed}

\* (completed as f32 / total as f32) * 100.0, kept as the whole percent: it is
\* 100 exactly when completed = total and below 100 when completed < total
Percentage(completed_lessons, total_lessons) ==
  IF total_lessons > 0 THEN (completed_lessons * 100) \div total_lessons ELSE 0

\* pool.begin() and the upsert of the lesson's progress row
ULP_Begin(p, u, l, is_completed, progress) ==
  /\ proc[p].pc = "idle"
  /\ ops < MaxOps
  /\ ~LockedByOther(p, ULPKey(u, l))
  /\ ops' = ops + 1
  /\ proc' = [proc EXCEPT ![p] =
       [Request("update_lesson_progress", u, l, is_completed, progress) EXCEPT
          !.pc = "ulp_course",
          !.log = <<W("ulp_upsert", u, l, is_completed, progress, 0, 0, now)>>,
          !.locks = {ULPKey(u, l)}]]
  /\ UNCHANGED <<db, now, prev, token_cache, provider>>

\* SELECT module_id FROM lessons, SELECT course_id FROM modules: fetch_one fails
\* with RowNotFound for an unknown lesson and the transaction is dropped
ULP_Course(p) ==
  /\ proc[p].pc = "ulp_course"
  /\ IF proc[p].x \in View(p).lessons
     THEN proc' = [proc EXCEPT ![p].pc = "ulp_total", ![p].c = CourseOf(proc[p].x)]
     ELSE proc' = [proc EXCEPT ![p] = Finish(proc[p], "err")]
  /\ UNCHANGED <<db, now, ops, prev, token_cache, provider>>

ULP_Total(p) ==
  /\ proc[p].pc = "ulp_total"
  /\ proc' = [proc EXCEPT ![p].pc = "ulp_completed",
                          ![p].total = Cardinality(LessonsOf(View(p), proc[p].c))]
  /\ UNCHANGED <<db, now, ops, prev, token_cache, provider>>

ULP_Completed(p) ==
  /\ proc[p].pc = "ulp_completed"
  /\ LET n == Cardinality(CompletedIn(View(p), proc[p].u, proc[p].c))
     IN  proc' = [proc EXCEPT ![p].pc = "ulp_cp", ![p].completed = n,
                              ![p].pct = Percentage(n, proc[p].total)]
  /\ UNCHANGED <<db, now, ops, prev, token_cache, provider>>

ULP_UpsertCP(p) ==
  /\ proc[p].pc = "ulp_cp"
  /\ ~LockedByOther(p, CPKey(proc[p].u, proc[p].c))
  /\ proc' = [proc EXCEPT
       ![p].pc = "ulp_commit",
       ![p].locks = @ \cup {CPKey(proc[p].u, proc[p].c)},
       ![p].log = Append(@, W("cp_upsert", proc[p].u, proc[p].c, FALSE, proc[p].pct,
                              proc[p].total, proc[p].completed, proc[p].t0))]
  /\ UNCHANGED <<db, now, ops, prev, token_cache, provider>>

\* the triggers evaluated after the commit
TriggersAfterProgress(is_completed, progress_percentage) ==
  (IF is_completed THEN <<"lesson_completed">> ELSE <<>>)
    \o (IF progress_percentage >= 100 THEN <<"course_completed">> ELSE <<>>)

ULP_Commit(p) ==
  /\ proc[p].pc = "ulp_commit"
  /\ db' = View(p)
  /\ proc' = [proc EXCEPT ![p] =
       AfterCheck(p, [proc[p] EXCEPT !.todo = TriggersAfterProgress(proc[p].b, proc[p].pct),
                                     !.committed = TRUE],
                  "ok")]
  /\ UNCHANGED <<now, ops, prev, token_cache, provider>>

\* ------------------------------------------------------------ subscriptions
RECURSIVE SeqOf(_)
SeqOf(S) == IF S = {} THEN <<>>
            ELSE LET k == CHOOSE k \in S : TRUE IN <<k>> \o SeqOf(S \ {k})

RECURSIVE StatusWrites(_, _)
StatusWrites(ids, status) ==
  IF ids = <<>> THEN <<>>
  ELSE <<W("sub_status", NONE, Head(ids), status, 0, 0, 0, 0)>> \o StatusWrites(Tail(ids), status)

\* WHERE user_id = $1 AND status = true
ActiveOf(d, u) ==
  {s \in PaypalIds : d.subscription[s].exists /\ d.subscription[s].user_id = u
                     /\ d.subscription[s].status = TRUE}

\* create_subscription, first statement: UPDATE subscription SET status = false
\* WHERE user_id = $1 AND status = true.  The provider issues a new id for
\* every subscription.
SC_Begin(p, u, paypal_id) ==
  /\ proc[p].pc = "idle"
  /\ ops < MaxOps
  /\ ~db.subscription[paypal_id].exists
  /\ \A q \in Procs \ {p} : ~(proc[q].pc = "sc_insert" /\ proc[q].x = paypal_id)
  /\ \A s \in ActiveOf(db, u) : ~LockedByOther(p, SubKey(s))
  /\ ops' = ops + 1
  /\ proc' = [proc EXCEPT ![p] =
       [Request("create_subscription", u, paypal_id, FALSE, 0) EXCEPT
          !.pc = "sc_insert",
          !.log = StatusWrites(SeqOf(ActiveOf(db, u)), FALSE),
          !.locks = {SubKey(s) : s \in ActiveOf(db, u)}]]
  /\ UNCHANGED <<db, now, prev, token_cache, provider>>

\* second statement, INSERT .. VALUES ($1, $2, $3, true, $4, $5, NULL, ..), and commit
SC_Insert(p) ==
  /\ proc[p].pc = "sc_insert"
  /\ db' = [View(p) EXCEPT !.subscription[proc[p].x] =
              [exists |-> TRUE, user_id |-> proc[p].u, status |-> TRUE, end_time |-> NULL]]
  /\ proc' = [proc EXCEPT ![p] = Finish(proc[p], "ok")]
  /\ UNCHANGED <<now, ops, prev, token_cache, provider>>

\* UPDATE subscription SET status = false WHERE id = $1
cancel_subscription(p, s) ==
  /\ proc[p].pc = "idle"
  /\ ops < MaxOps
  /\ ~LockedByOther(p, SubKey(s))
  /\ ops' = ops + 1
  /\ db' = IF db.subscription[s].exists
           THEN [db EXCEPT !.subscription[s].status = FALSE] ELSE db
  /\ proc' = [proc EXCEPT ![p] = Finish(Request("cancel_subscription", NONE, s, FALSE, 0), "ok")]
  /\ UNCHANGED <<now, prev, token_cache, provider>>

\* UPDATE subscription SET status = $2 WHERE paypal_subscription_id = $1
update_subscription_status(p, s, status) ==
  /\ proc[p].pc = "idle"
  /\ ops < MaxOps
  /\ ~LockedByOther(p, SubKey(s))
  /\ ops' = ops + 1
  /\ db' = IF db.subscription[s].exists
           THEN [db EXCEPT !.subscription[s].status = status] ELSE db
  /\ proc' = [proc EXCEPT ![p] =
       Finish(Request("update_subscription_status", NONE, s, status, 0), "ok")]
  /\ UNCHANGED <<now, prev, token_cache, provider>>

\* UPDATE subscription SET end_time = now + duration_months * 30 days WHERE
\* paypal_subscription_id = $1, when the subscription and its plan are found;
\* duration is the plan's length, NULL for a plan that is not found
update_subscription_end_time(p, s, duration) ==
  /\ proc[p].pc = "idle"
  /\ ops < MaxOps
  /\ ~LockedByOther(p, SubKey(s))
  /\ ops' = ops + 1
  /\ db' = IF db.subscription[s].exists /\ duration # NULL
           THEN [db EXCEPT !.subscription[s].end_time = now + duration] ELSE db
  /\ proc' = [proc EXCEPT ![p] =
       Finish(Request("update_subscription_end_time", NONE, s, FALSE, duration), "ok")]
  /\ UNCHANGED <<now, prev, token_cache, provider>>

\* UPDATE subscription SET status = false, end_time = $2
\* WHERE paypal_subscription_id = $1 AND end_time IS NULL
expire_subscription(p, s) ==
  /\ proc[p].pc = "idle"
  /\ ops < MaxOps
  /\ ~LockedByOther(p, SubKey(s))
  /\ ops' = ops + 1
  /\ db' = IF db.subscription[s].exists /\ db.subscription[s].end_time = NULL
           THEN [db EXCEPT !.subscription[s].status = FALSE, !.subscription[s].end_time = now]
           ELSE db
  /\ proc' = [proc EXCEPT ![p] = Finish(Request("expire_subscription", NONE, s, FALSE, 0), "ok")]
  /\ UNCHANGED <<now, prev, token_cache, provider>>

\* ---------------------------------------------------- check_user_course_access
\* EXISTS(SELECT 1 FROM users WHERE id = $1 AND role = 'admin')
IsAdmin(d, u) == d.role[u] = "admin"

\* EXISTS(SELECT 1 FROM subscription WHERE user_id = $1 AND status = true
\* AND end_time > NOW()): the comparison is not true for a NULL end_time
SubscriptionGrantsIgnoringExpiry(d, u, t) ==
  \E s \in PaypalIds : /\ d.subscription[s].exists
                       /\ d.subscription[s].user_id = u
                       /\ d.subscription[s].status = TRUE
                       /\ d.subscription[s].end_time # NULL

SubscriptionGrants(d, u, t) ==
  \E s \in PaypalIds : /\ d.subscription[s].exists
                       /\ d.subscription[s].user_id = u
                       /\ d.subscription[s].status = TRUE
                       /\ d.subscription[s].end_time # NULL
                       /\ d.subscription[s].end_time > t

\* EXISTS(SELECT 1 FROM user_courses WHERE user_id = $1 AND course_id = $2)
HasPurchased(d, u, c) == d.user_courses[<<u, c>>] > 0

AccessWithoutAdminRule(d, u, c, t) ==
  IF SubscriptionGrants(d, u, t) THEN TRUE
  ELSE HasPurchased(d, u, c)

Access(d, u, c, t) ==
  IF IsAdmin(d, u) THEN TRUE
  ELSE IF SubscriptionGrants(d, u, t) THEN TRUE
  ELSE HasPurchased(d, u, c)

\* one of the lookups fails in the store: fetch_one(..).await? returns the error
\* and the transaction, which has written nothing, is dropped
check_user_course_access_error(p, u, c) ==
  /\ proc[p].pc = "idle"
  /\ ops < MaxOps
  /\ ops' = ops + 1
  /\ proc' = [proc EXCEPT ![p] =
       Finish(Request("check_user_course_access", u, c, FALSE, 0), "err")]
  /\ UNCHANGED <<db, now, prev, token_cache, provider>>

check_user_course_accessExpiring(p, u, c) ==
  /\ proc[p].pc = "idle"
  /\ ops < MaxOps
  /\ ops' = ops + 1
  /\ proc' = [proc EXCEPT ![p] =
       Finish(Request("check_user_course_access", u, c, FALSE, 0),
              IF Access(db, u, c, now) THEN "granted" ELSE "denied")]
  /\ db' = [db EXCEPT !.subscription =
              [s \in PaypalIds |-> IF @[s].user_id = u THEN [@[s] EXCEPT !.status = FALSE]
                                   ELSE @[s]]]
  /\ UNCHANGED <<now, prev, token_cache, provider>>

\* the three lookups read one after the other inside one transaction; they are
\* taken together here, the specifications that use them serve one request at
\* a time
check_user_course_access(p, u, c) ==
  /\ proc[p].pc = "idle"
  /\ ops < MaxOps
  /\ ops' = ops + 1
  /\ proc' = [proc EXCEPT ![p] =
       Finish(Request("check_user_course_access", u, c, FALSE, 0),
              IF Access(db, u, c, now) THEN "granted" ELSE "denied")]
  /\ UNCHANGED <<db, now, prev, token_cache, provider>>

\* ------------------------------------------ check_user_has_active_subscription
\* EXISTS(SELECT 1 FROM subscription WHERE user_id = $1 AND end_time > NOW())
HasActiveSubscription(d, u, t) ==
  \E s \in PaypalIds : /\ d.subscription[s].exists
                       /\ d.subscription[s].user_id = u
                       /\ d.subscription[s].end_time # NULL
                       /\ d.subscription[s].end_time > t

check_user_has_active_subscription(p, u) ==
  /\ proc[p].pc = "idle"
  /\ ops < MaxOps
  /\ ops' = ops + 1
  /\ proc' = [proc EXCEPT ![p] =
       Finish(Request("check_user_has_active_subscription", u, NONE, FALSE, 0),
              IF HasActiveSubscription(db, u, now) THEN "true" ELSE "false")]
  /\ UNCHANGED <<db, now, prev, token_cache, provider>>

\* ---------------------------------------------------- register_course_purchase
\* pool.begin(), the course lookup and INSERT INTO payments; n keeps the number
\* of entitlement records the pair had when the request came in
Purchase(r, u, c) ==
  IF c \in Courses
  THEN [r EXCEPT !.pc = "pu_check_uc", !.c = c,
                 !.n = db.user_courses[<<u, c>>],
                 !.log = <<W("pay_insert", u, c, FALSE, 0, 0, 0, now)>>]
  ELSE Finish(r, "err")

PU_Begin(p, u, c) ==
  /\ proc[p].pc = "idle"
  /\ ops < MaxOps
  /\ ops' = ops + 1
  /\ proc' = [proc EXCEPT ![p] =
       Purchase(Request("register_course_purchase", u, c, FALSE, 0), u, c)]
  /\ UNCHANGED <<db, now, prev, token_cache, provider>>

\* the entitlement store's uniqueness on the (account, course) pair: the table
\* definition is not among the sources, the pair's uniqueness is the data
\* model's.  An insert is accepted when the pair has no row.
UniqueEntitlement(d, u, c) == d.user_courses[<<u, c>>] = 0

\* SELECT EXISTS(SELECT 1 FROM user_courses WHERE user_id = $1 AND course_id = $2)
PU_CheckUCSkipped(p) ==
  /\ proc[p].pc = "pu_check_uc"
  /\ proc' = [proc EXCEPT ![p].pc = "pu_insert_uc"]
  /\ UNCHANGED <<db, now, ops, prev, token_cache, provider>>

PU_CheckUC(p) ==
  /\ proc[p].pc = "pu_check_uc"
  /\ proc' = [proc EXCEPT ![p].pc =
       IF View(p).user_courses[<<proc[p].u, proc[p].c>>] > 0
       THEN "pu_check_cp" ELSE "pu_insert_uc"]
  /\ UNCHANGED <<db, now, ops, prev, token_cache, provider>>

\* INSERT INTO user_courses (id, user_id, course_id, purchased_at): a plain
\* insert after the separate SELECT EXISTS.  It waits for a transaction that
\* inserted the pair and has not ended; a committed row for the pair makes it
\* fail, the error is returned and the purchase is rolled back.
PU_InsertUC(p) ==
  /\ proc[p].pc = "pu_insert_uc"
  /\ ~LockedByOther(p, UCKey(proc[p].u, proc[p].c))
  /\ IF UniqueEntitlement(View(p), proc[p].u, proc[p].c)
     THEN proc' = [proc EXCEPT
            ![p].pc = "pu_students",
            ![p].locks = @ \cup {UCKey(proc[p].u, proc[p].c)},
            ![p].log = Append(@, W("uc_insert", proc[p].u, proc[p].c, FALSE, 0, 0, 0, proc[p].t0))]
     ELSE proc' = [proc EXCEPT ![p] = Finish(proc[p], "err")]
  /\ UNCHANGED <<db, now, ops, prev, token_cache, provider>>

PU_StudentsLost(p) ==
  /\ proc[p].pc = "pu_students"
  /\ ~LockedByOther(p, CourseKey(proc[p].c))
  /\ proc' = [proc EXCEPT
       ![p].pc = "pu_check_cp",
       ![p].locks = @ \cup {CourseKey(proc[p].c)}]
  /\ UNCHANGED <<db, now, ops, prev, token_cache, provider>>

\* UPDATE courses SET students = students + 1 WHERE id = $1
PU_Students(p) ==
  /\ proc[p].pc = "pu_students"
  /\ ~LockedByOther(p, CourseKey(proc[p].c))
  /\ proc' = [proc EXCEPT
       ![p].pc = "pu_check_cp",
       ![p].locks = @ \cup {CourseKey(proc[p].c)},
       ![p].log = Append(@, W("students_inc", proc[p].u, proc[p].c, FALSE, 0, 0, 0, proc[p].t0))]
  /\ UNCHANGED <<db, now, ops, prev, token_cache, provider>>

\* SELECT EXISTS(SELECT 1 FROM course_progress WHERE user_id = $1 AND course_id = $2)
PU_CheckCP(p) ==
  /\ proc[p].pc = "pu_check_cp"
  /\ proc' = [proc EXCEPT ![p].pc =
       IF View(p).course_progress[<<proc[p].u, proc[p].c>>].exists
       THEN "pu_commit" ELSE "pu_total"]
  /\ UNCHANGED <<db, now, ops, prev, token_cache, provider>>

\* SELECT COUNT(l.*) FROM courses c JOIN modules m .. JOIN lessons l .. WHERE c.id = $1
PU_Total(p) ==
  /\ proc[p].pc = "pu_total"
  /\ proc' = [proc EXCEPT ![p].pc = "pu_insert_cp",
                          ![p].total = Cardinality(LessonsOf(View(p), proc[p].c))]
  /\ UNCHANGED <<db, now, ops, prev, token_cache, provider>>

\* INSERT INTO course_progress (.., 0.0, total_lessons, 0, ..): a row another
\* transaction committed for the pair since the check makes the insert fail on
\* the unique index, and the purchase is rolled back
PU_InsertCP(p) ==
  /\ proc[p].pc = "pu_insert_cp"
  /\ ~LockedByOther(p, CPKey(proc[p].u, proc[p].c))
  /\ IF View(p).course_progress[<<proc[p].u, proc[p].c>>].exists
     THEN proc' = [proc EXCEPT ![p] = Finish(proc[p], "err")]
     ELSE proc' = [proc EXCEPT
            ![p].pc = "pu_commit",
            ![p].locks = @ \cup {CPKey(proc[p].u, proc[p].c)},
            ![p].log = Append(@, W("cp_insert", proc[p].u, proc[p].c, FALSE, 0,
                                   proc[p].total, 0, proc[p].t0))]
  /\ UNCHANGED <<db, now, ops, prev, token_cache, provider>>

\* tx.commit(), then check_and_award_achievements(user_id, "courses_enrolled", None)
PU_Commit(p) ==
  /\ proc[p].pc = "pu_commit"
  /\ db' = View(p)
  /\ proc' = [proc EXCEPT ![p] =
       AfterCheck(p, [proc[p] EXCEPT !.todo = <<"courses_enrolled">>, !.committed = TRUE],
                  "ok")]
  /\ UNCHANGED <<now, ops, prev, token_cache, provider>>

\* -------------------------------------------------- a statement that fails
\* the steps of the two transactions at which a statement or the commit runs
InTransaction ==
  {"ulp_course", "ulp_total", "ulp_completed", "ulp_cp", "ulp_commit",
   "pu_check_uc", "pu_insert_uc", "pu_students", "pu_check_cp", "pu_total",
   "pu_insert_cp", "pu_commit"}

TX_StoreErrorKeepingWrites(p) ==
  /\ proc[p].pc \in InTransaction
  /\ db' = View(p)
  /\ proc' = [proc EXCEPT ![p] = Finish(proc[p], "err")]
  /\ UNCHANGED <<now, ops, prev, token_cache, provider>>

\* the statement (or the commit) the transaction is at fails in the store: the
\* ? returns the error and the dropped transaction is rolled back.  At the
\* first step of register_course_purchase this is also the failing INSERT INTO
\* payments.
TX_StoreError(p) ==
  /\ proc[p].pc \in InTransaction
  /\ db' = db
  /\ proc' = [proc EXCEPT ![p] = Finish(proc[p], "err")]
  /\ UNCHANGED <<now, ops, prev, token_cache, provider>>

\* the upsert of the lesson's progress row is refused: its error is logged and
\* dropped (let _ = ..map_err(..)), the call goes on in a transaction that the
\* store has aborted
ULP_BeginUpsertRefused(p, u, l, is_completed, progress) ==
  /\ proc[p].pc = "idle"
  /\ ops < MaxOps
  /\ ops' = ops + 1
  /\ proc' = [proc EXCEPT ![p] =
       [Request("update_lesson_progress", u, l, is_completed, progress) EXCEPT
          !.pc = "ulp_aborted"]]
  /\ UNCHANGED <<db, now, prev, token_cache, provider>>

\* SELECT module_id FROM lessons in the aborted transaction: the store refuses
\* every further statement, fetch_one(..).await? returns the error
ULP_Aborted(p) ==
  /\ proc[p].pc = "ulp_aborted"
  /\ proc' = [proc EXCEPT ![p] = Finish(proc[p], "err")]
  /\ UNCHANGED <<db, now, ops, prev, token_cache, provider>>

\* ------------------------------------------------------------- update_course
\* lesson_upsert: a lesson sent with the course that the module does not hold yet
AddLesson(l) ==
  /\ l \notin db.lessons
  /\ ops < MaxOps
  /\ ops' = ops + 1
  /\ db' = [db EXCEPT !.lessons = @ \cup {l}]
  /\ prev' = NoPrev
  /\ UNCHANGED <<proc, now, token_cache, provider>>

\* lesson_deleted: DELETE FROM lessons WHERE .. AND id NOT IN (SELECT id FROM lesson_input)
RemoveLesson(l) ==
  /\ l \in db.lessons
  /\ ops < MaxOps
  /\ ops' = ops + 1
  /\ db' = [db EXCEPT !.lessons = @ \ {l}]
  /\ prev' = NoPrev
  /\ UNCHANGED <<proc, now, token_cache, provider>>

\* the response is sent; the worker takes the next request
Return(p) ==
  /\ proc[p].pc = "done"
  /\ proc' = [proc EXCEPT ![p] = Idle]
  /\ UNCHANGED <<db, now, ops, prev, token_cache, provider>>

\* the same, keeping what the request was and the course progress row it left
ReturnNoting(p) ==
  /\ proc[p].pc = "done"
  /\ proc' = [proc EXCEPT ![p] = Idle]
  /\ prev' = [op |-> proc[p].op, u |-> proc[p].u, x |-> proc[p].x, b |-> proc[p].b,
              n |-> proc[p].n, res |-> proc[p].res,
              row |-> IF proc[p].c \in Courses
                      THEN db.course_progress[<<proc[p].u, proc[p].c>>]
                      ELSE NoCP]
  /\ UNCHANGED <<db, now, ops, token_cache, provider>>

Tick ==
  /\ now < MaxTime
  /\ now' = now + 1
  /\ UNCHANGED <<db, proc, ops, prev, token_cache, provider>>

\* ------------------------------------------------------------ get_paypal_token
\* Duration::seconds(expires_in - 60)
Margin == 60
\* json["expires_in"].as_i64().unwrap_or(3600)
DefaultExpiresIn == 3600

ExpiresIn(expires_in) == IF expires_in = NULL THEN DefaultExpiresIn ELSE expires_in

\* CachedToken { expires_at: Utc::now() + Duration::seconds(expires_in - 60) }
ExpiresAtWithoutMargin(t, expires_in) == t + expires_in

ExpiresAt(t, expires_in) == t + expires_in - Margin

\* CachedToken::is_valid: Utc::now() < self.expires_at
is_valid(cached, t) == t < cached.expires_at

\* if let Some(cached) = cache.as_ref() { if cached.is_valid() { .. } }
HasValidToken(t) == token_cache.some /\ is_valid(token_cache, t)

\* the provider's answers to POST /v1/oauth2/token: a token, no answer, or a
\* body without access_token
FetchOutcomes == {"ok", "unreachable", "malformed"}

\* the token the provider issues next; provider lists, per token issued, the
\* time the provider stops accepting it (the response's time plus its lifetime)
NextToken == Len(provider) + 1

\* what a token call keeps of the cache it found: the token, and whether the
\* provider still accepts that token for more than the margin
Found(r) ==
  [r EXCEPT !.seen = IF token_cache.some THEN token_cache.access_token ELSE 0,
            !.b = /\ token_cache.some
                  /\ now < provider[token_cache.access_token] - Margin]

\* where a token call ends: a direct call answers; inside a handler the
\* handler goes on with the token, or unwinds with the panic
AfterToken(r, res) ==
  IF r.todo = <<>> THEN Finish(r, res)
  ELSE IF res = "panic" THEN Finish([r EXCEPT !.todo = <<>>], "panic")
  ELSE [r EXCEPT !.pc = Head(r.todo), !.todo = Tail(r.todo)]

\* func/payments.rs, first check under the read lock; a worker that has
\* answered takes the call as its next request
GT_Read(p) ==
  /\ proc[p].pc \in {"idle", "done"}
  /\ ops < MaxOps
  /\ token_cache.holder = 0
  /\ ops' = ops + 1
  /\ LET r == Found([Idle EXCEPT !.op = "get_paypal_token"])
     IN  proc' = [proc EXCEPT ![p] =
           IF HasValidToken(now)
           THEN AfterToken([r EXCEPT !.ret = token_cache.access_token], "ok")
           ELSE [r EXCEPT !.pc = "gt_fetch"]]
  /\ UNCHANGED <<db, now, prev, token_cache, provider>>

\* the same first check when a handler calls get_paypal_token
GT_ReadInHandler(p) ==
  /\ proc[p].pc = "gt_read"
  /\ token_cache.holder = 0
  /\ LET r == Found(proc[p])
     IN  proc' = [proc EXCEPT ![p] =
           IF HasValidToken(now)
           THEN AfterToken([r EXCEPT !.ret = token_cache.access_token], "ok")
           ELSE [r EXCEPT !.pc = "gt_fetch"]]
  /\ UNCHANGED <<db, now, ops, prev, token_cache, provider>>

\* the token request, sent with no lock held: .expect() panics when the request
\* fails, the body is not JSON or it has no access_token
GT_Fetch(p, outcome, expires_in) ==
  /\ proc[p].pc = "gt_fetch"
  /\ IF outcome = "ok"
     THEN /\ provider' = Append(provider, now + ExpiresIn(expires_in))
          /\ proc' = [proc EXCEPT ![p].pc = "gt_write", ![p].fetched = TRUE,
                                  ![p].tok = NextToken, ![p].n = expires_in,
                                  ![p].exp = ExpiresAt(now, ExpiresIn(expires_in))]
     ELSE /\ provider' = provider
          /\ proc' = [proc EXCEPT ![p] =
               AfterToken([proc[p] EXCEPT !.fetched = TRUE], "panic")]
  /\ UNCHANGED <<db, now, ops, prev, token_cache>>

\* second check under the write lock: a token another request installed and
\* that is valid is returned, otherwise this request stores its own
GT_WriteUnchecked(p) ==
  /\ proc[p].pc = "gt_write"
  /\ token_cache.holder = 0
  /\ token_cache' = [some |-> TRUE, access_token |-> proc[p].tok,
                     expires_at |-> proc[p].exp, holder |-> 0]
  /\ proc' = [proc EXCEPT ![p] =
       AfterToken([proc[p] EXCEPT !.ret = proc[p].tok, !.exp = 0, !.n = 0], "ok")]
  /\ UNCHANGED <<db, now, ops, prev, provider>>

GT_Write(p) ==
  /\ proc[p].pc = "gt_write"
  /\ token_cache.holder = 0
  /\ IF HasValidToken(now)
     THEN /\ token_cache' = token_cache
          /\ proc' = [proc EXCEPT ![p] =
               AfterToken([proc[p] EXCEPT !.ret = token_cache.access_token,
                                          !.exp = 0, !.n = 0], "ok")]
     ELSE /\ token_cache' = [some |-> TRUE, access_token |-> proc[p].tok,
                             expires_at |-> proc[p].exp, holder |-> 0]
          /\ proc' = [proc EXCEPT ![p] =
               AfterToken([proc[p] EXCEPT !.ret = proc[p].tok, !.exp = 0, !.n = 0], "ok")]
  /\ UNCHANGED <<db, now, ops, prev, provider>>

\* func/handlers.rs: the lock is taken first and kept until the function returns
HT_Lock(p) ==
  /\ proc[p].pc \in {"idle", "done"}
  /\ ops < MaxOps
  /\ token_cache.holder = 0
  /\ ops' = ops + 1
  /\ LET r == Found([Idle EXCEPT !.op = "handlers::get_paypal_token"])
     IN  IF HasValidToken(now)
         THEN /\ proc' = [proc EXCEPT ![p] =
                   [Finish(r, "ok") EXCEPT !.ret = token_cache.access_token]]
              /\ token_cache' = token_cache
         ELSE /\ proc' = [proc EXCEPT ![p] = [r EXCEPT !.pc = "ht_fetch"]]
              /\ token_cache' = [token_cache EXCEPT !.holder = p]
  /\ UNCHANGED <<db, now, prev, provider>>

\* the token request under the lock; a panic unwinds and drops the guard
HT_Fetch(p, outcome, expires_in) ==
  /\ proc[p].pc = "ht_fetch"
  /\ IF outcome = "ok"
     THEN /\ provider' = Append(provider, now + ExpiresIn(expires_in))
          /\ token_cache' = [some |-> TRUE, access_token |-> NextToken,
                             expires_at |-> ExpiresAt(now, ExpiresIn(expires_in)),
                             holder |-> 0]
          /\ proc' = [proc EXCEPT ![p] =
               [Finish(proc[p], "ok") EXCEPT !.fetched = TRUE, !.tok = NextToken,
                                             !.ret = NextToken]]
     ELSE /\ provider' = provider
          /\ token_cache' = [token_cache EXCEPT !.holder = 0]
          /\ proc' = [proc EXCEPT ![p] = [Finish(proc[p], "panic") EXCEPT !.fetched = TRUE]]
  /\ UNCHANGED <<db, now, ops, prev>>

\* ------------------------------------------------------------- paypal_webhook
RequiredHeaders ==
  {"PAYPAL-TRANSMISSION-ID", "PAYPAL-TRANSMISSION-SIG", "PAYPAL-TRANSMISSION-TIME",
   "PAYPAL-CERT-URL", "PAYPAL-AUTH-ALGO"}

\* the arms of match event["event_type"].as_str() that answer Ok
HandledEvents ==
  {"PAYMENT.CAPTURE.COMPLETED", "PAYMENT.CAPTURE.DENIED", "PAYMENT.CAPTURE.PENDING",
   "PAYMENT.CAPTURE.REFUNDED", "PAYMENT.CAPTURE.REVERSED", "CHECKOUT.ORDER.APPROVED",
   "BILLING.SUBSCRIPTION.CREATED", "BILLING.SUBSCRIPTION.ACTIVATED",
   "BILLING.SUBSCRIPTION.UPDATED", "BILLING.SUBSCRIPTION.CANCELLED",
   "BILLING.SUBSCRIPTION.EXPIRED", "BILLING.SUBSCRIPTION.SUSPENDED",
   "BILLING.SUBSCRIPTION.PAYMENT.FAILED", "PAYMENT.SALE.COMPLETED",
   "PAYMENT.SALE.REFUNDED", "PAYMENT.SALE.REVERSED", "PAYMENT.ORDER.CANCELLED",
   "PAYMENT.AUTHORIZATION.CREATED", "PAYMENT.AUTHORIZATION.VOIDED"}

\* a body that serde_json::from_slice does not parse
NotJson == "{not json"

WH_BeginWithoutHeaderCheck(p, headers, sig, body) ==
  /\ proc[p].pc = "idle"
  /\ ops < MaxOps
  /\ ops' = ops + 1
  /\ LET r == [Idle EXCEPT !.op = "paypal_webhook", !.x = body, !.headers = headers,
                           !.sig = sig]
     IN  proc' = [proc EXCEPT ![p] =
           IF body = NotJson THEN Finish(r, "400")
           ELSE [r EXCEPT !.pc = "gt_read", !.todo = <<"wh_verify">>]]
  /\ UNCHANGED <<db, now, prev, token_cache, provider>>

\* the five header lookups, each answering 400 when its header is absent, then
\* verify_paypal_webhook_signature up to its call of get_paypal_token: a body
\* that is not JSON is not verified.  body stands for the payload by its
\* event_type (NONE: a JSON payload without event_type).
WH_Begin(p, headers, sig, body) ==
  /\ proc[p].pc = "idle"
  /\ ops < MaxOps
  /\ ops' = ops + 1
  /\ LET r == [Idle EXCEPT !.op = "paypal_webhook", !.x = body, !.headers = headers,
                           !.sig = sig]
     IN  proc' = [proc EXCEPT ![p] =
           IF ~(RequiredHeaders \subseteq headers) THEN Finish(r, "400")
           ELSE IF body = NotJson THEN Finish(r, "400")
           ELSE [r EXCEPT !.pc = "gt_read", !.todo = <<"wh_verify">>]]
  /\ UNCHANGED <<db, now, prev, token_cache, provider>>

\* what POST /v1/notifications/verify-webhook-signature can come to: a
\* verification_status, no answer, or a body that is not JSON; the provider
\* answers SUCCESS only for a signature it made
VerifyOutcomes == {"SUCCESS", "FAILURE", "unreachable", "malformed"}

\* the verification call and if !is_verified { return Err(bad_request) }
WH_Verify(p, outcome) ==
  /\ proc[p].pc = "wh_verify"
  /\ outcome = "SUCCESS" => proc[p].sig = "genuine"
  /\ proc' = [proc EXCEPT ![p] =
       IF outcome = "SUCCESS"
       THEN [proc[p] EXCEPT !.pc = "wh_dispatch", !.called = TRUE, !.verified = TRUE]
       ELSE Finish([proc[p] EXCEPT !.called = TRUE], "400")]
  /\ UNCHANGED <<db, now, ops, prev, token_cache, provider>>

\* serde_json::from_slice(&body) and the match on event_type: every handled
\* arm only answers 200, the default arm answers 400
WH_DispatchAcceptingAll(p) ==
  /\ proc[p].pc = "wh_dispatch"
  /\ proc' = [proc EXCEPT ![p] = Finish(proc[p], "200")]
  /\ UNCHANGED <<db, now, ops, prev, token_cache, provider>>

WH_Dispatch(p) ==
  /\ proc[p].pc = "wh_dispatch"
  /\ proc' = [proc EXCEPT ![p] =
       Finish(proc[p], IF proc[p].x \in HandledEvents THEN "200" ELSE "400")]
  /\ UNCHANGED <<db, now, ops, prev, token_cache, provider>>

\* ------------------------------------------------------- AuthMiddleware::call
\* req.cookie("token"), or else the Authorization header after "Bearer "
TokenOf(cookie, authorization) ==
  IF cookie.some THEN cookie
  ELSE IF authorization.scheme = "Bearer"
       THEN [some |-> TRUE, value |-> authorization.value]
       ELSE NoCookie

\* decode::<Claims>(token, secret, &Validation::default()): the sub claim of a
\* token that carries the signature and has not run out, or None
verify_jwtIgnoringExpiry(token, t) ==
  IF token.signed THEN token.sub ELSE NONE

verify_jwt(token, t) ==
  IF token.signed /\ t <= token.exp THEN token.sub ELSE NONE

\* Uuid::parse_str: the identifier, or NONE for a string that is none; c9 is
\* an identifier that names no course
Uuids == Users \cup Courses \cup {"c9"}
parse_str(sub) == IF sub \in Uuids THEN sub ELSE NONE

\* SELECT ... FROM users WHERE id = $1
UserExists(d, u) == d.role[u] # NONE

\* the token lookup, verify_jwt and Uuid::parse_str
AM_Call(p, cookie, authorization) ==
  /\ proc[p].pc = "idle"
  /\ ops < MaxOps
  /\ ops' = ops + 1
  /\ LET r     == [Idle EXCEPT !.op = "AuthMiddleware::call", !.cookie = cookie,
                               !.authorization = authorization, !.t0 = now]
         token == TokenOf(cookie, authorization)
         sub   == verify_jwt(token.value, now)
     IN  proc' = [proc EXCEPT ![p] =
           IF ~token.some THEN Finish(r, "TokenNotProvided")
           ELSE IF sub = NONE THEN Finish(r, "InvalidToken")
           ELSE IF parse_str(sub) = NONE THEN Finish(r, "InvalidToken")
           ELSE [r EXCEPT !.pc = "am_get_user", !.u = parse_str(sub)]]
  /\ UNCHANGED <<db, now, prev, token_cache, provider>>

\* get_user(Some(user_id), ..): a store error and a missing account are both
\* answered 401; otherwise the account goes to the wrapped service
AM_GetUser(p, answered) ==
  /\ proc[p].pc = "am_get_user"
  /\ proc' = [proc EXCEPT ![p] =
       IF ~answered THEN Finish([proc[p] EXCEPT !.b = TRUE], "Usuario no encontrado")
       ELSE IF ~UserExists(db, proc[p].u) THEN Finish(proc[p], "UserNoLongerExist")
       ELSE Finish(proc[p], "pass")]
  /\ UNCHANGED <<db, now, ops, prev, token_cache, provider>>

\* -------------------------------------------------------------- capture_order
\* the handler up to its call of get_paypal_token; the account is the one the
\* session middleware resolved
CO_Begin(p, u) ==
  /\ proc[p].pc = "idle"
  /\ ops < MaxOps
  /\ ops' = ops + 1
  /\ proc' = [proc EXCEPT ![p] =
       [Idle EXCEPT !.op = "capture_order", !.u = u, !.t0 = now,
                    !.pc = "gt_read", !.todo = <<"co_capture">>]]
  /\ UNCHANGED <<db, now, prev, token_cache, provider>>

\* what POST /v2/checkout/orders/{id}/capture can come to: no answer, an error
\* status, a body that is not JSON, or the order
CaptureOutcomes == {"unreachable", "error_status", "malformed", "order"}

CO_CaptureAnyStatus(p, outcome, status, custom_id) ==
  /\ proc[p].pc = "co_capture"
  /\ LET r == [proc[p] EXCEPT !.called = TRUE]
         o == [r EXCEPT !.status = status, !.x = custom_id]
     IN  proc' = [proc EXCEPT ![p] =
           IF outcome = "unreachable" THEN Finish(r, "500")
           ELSE IF outcome = "error_status" THEN Finish(r, "400")
           ELSE IF outcome = "malformed" THEN Finish(r, "500")
           ELSE IF parse_str(custom_id) = NONE THEN Finish(o, "400")
           ELSE Purchase(o, proc[p].u, custom_id)]
  /\ UNCHANGED <<db, now, ops, prev, token_cache, provider>>

\* the capture request and what follows it: 500 without an answer, 400 for an
\* error status, 500 for a body that is not JSON, 400 for a custom_id that is no
\* identifier; then register_course_purchase for the status COMPLETED and 400
\* for any other status.  status and custom_id are "" when the order has none.
CO_Capture(p, outcome, status, custom_id) ==
  /\ proc[p].pc = "co_capture"
  /\ LET r == [proc[p] EXCEPT !.called = TRUE]
         o == [r EXCEPT !.status = status, !.x = custom_id]
     IN  proc' = [proc EXCEPT ![p] =
           IF outcome = "unreachable" THEN Finish(r, "500")
           ELSE IF outcome = "error_status" THEN Finish(r, "400")
           ELSE IF outcome = "malformed" THEN Finish(r, "500")
           ELSE IF parse_str(custom_id) = NONE THEN Finish(o, "400")
           ELSE IF status = "COMPLETED" THEN Purchase(o, proc[p].u, custom_id)
           ELSE Finish(o, "400")]
  /\ UNCHANGED <<db, now, ops, prev, token_cache, provider>>

\* ----------------------------------------------------------- increment_user_stat
\* self.pool.begin()
IUS_Begin(p, u, stat_type) ==
  /\ proc[p].pc = "idle"
  /\ ops < MaxOps
  /\ ops' = ops + 1
  /\ proc' = [proc EXCEPT ![p] =
       [Request("increment_user_stat", u, stat_type, FALSE, 0) EXCEPT !.pc = "ius_upsert"]]
  /\ UNCHANGED <<db, now, prev, token_cache, provider>>

IUS_UpsertDoNothing(p) ==
  /\ proc[p].pc = "ius_upsert"
  /\ ~LockedByOther(p, StatKey(proc[p].u, proc[p].x))
  /\ LET row == View(p).user_stats[<<proc[p].u, proc[p].x>>]
         w   == W("stat_upsert", proc[p].u, proc[p].x, FALSE, 0, 0, 0, proc[p].t0)
     IN  proc' = [proc EXCEPT
           ![p].pc = "ius_commit",
           ![p].locks = @ \cup {StatKey(proc[p].u, proc[p].x)},
           ![p].log = IF row.exists THEN @ ELSE Append(@, w),
           ![p].ret = IF row.exists THEN row.value ELSE 1]
  /\ UNCHANGED <<db, now, ops, prev, token_cache, provider>>

\* INSERT INTO user_stats .. VALUES ($1, $2, 1, NOW()) ON CONFLICT (user_id,
\* stat_type) DO UPDATE SET value = user_stats.value + 1 RETURNING value: the
\* statement waits for a transaction that wrote the row, then works on the
\* row that one committed
IUS_Upsert(p) ==
  /\ proc[p].pc = "ius_upsert"
  /\ ~LockedByOther(p, StatKey(proc[p].u, proc[p].x))
  /\ LET row == View(p).user_stats[<<proc[p].u, proc[p].x>>]
         w   == W("stat_upsert", proc[p].u, proc[p].x, FALSE, 0, 0, 0, proc[p].t0)
     IN  proc' = [proc EXCEPT
           ![p].pc = "ius_commit",
           ![p].locks = @ \cup {StatKey(proc[p].u, proc[p].x)},
           ![p].log = Append(@, w),
           ![p].ret = row.value + 1]
  /\ UNCHANGED <<db, now, ops, prev, token_cache, provider>>

\* tx.commit() and Ok(value as i32)
IUS_Commit(p) ==
  /\ proc[p].pc = "ius_commit"
  /\ db' = View(p)
  /\ proc' = [proc EXCEPT ![p] = Finish(proc[p], "ok")]
  /\ UNCHANGED <<now, ops, prev, token_cache, provider>>

\* ------------------------------------------------------------- forgot_password
\* get_user(None, None, Some(email), None): SELECT .. FROM users WHERE email = $1
ByEmail(d, email) == {u \in Users : UserExists(d, u) /\ d.email[u] = email}

\* Utc::now() + Duration::minutes(30), in the model's time unit
ResetLifetime == 1

\* the lookup by e-mail: 400 when there is no such account
FP_Begin(p, email) ==
  /\ proc[p].pc = "idle"
  /\ ops < MaxOps
  /\ ops' = ops + 1
  /\ LET r == Request("forgot_password", NONE, email, FALSE, 0)
     IN  proc' = [proc EXCEPT ![p] =
           IF ByEmail(db, email) = {} THEN Finish(r, "400")
           ELSE [r EXCEPT !.pc = "fp_add_token", !.u = CHOOSE u \in ByEmail(db, email) : TRUE]]
  /\ UNCHANGED <<db, now, prev, token_cache, provider>>

\* add_verifed_token: UPDATE users SET verification_token = $1, token_expiry = $2
\* WHERE id = $3, with a token no account holds
FP_AddToken(p, token) ==
  /\ proc[p].pc = "fp_add_token"
  /\ \A u \in Users : db.verification_token[u] # token
  /\ db' = [db EXCEPT !.verification_token[proc[p].u] = token,
                      !.token_expiry[proc[p].u] = proc[p].t0 + ResetLifetime]
  /\ proc' = [proc EXCEPT ![p].pc = "fp_send"]
  /\ UNCHANGED <<now, ops, prev, token_cache, provider>>

\* send_forgot_password_email: 500 when the mail cannot be sent, 200 otherwise
FP_Send(p, sent) ==
  /\ proc[p].pc = "fp_send"
  /\ proc' = [proc EXCEPT ![p] = Finish(proc[p], IF sent THEN "200" ELSE "500")]
  /\ UNCHANGED <<db, now, ops, prev, token_cache, provider>>

\* -------------------------------------------------------------- reset_password
\* WHERE verification_token = $1 with a token_expiry that has not passed
LiveToken(d, token, t) ==
  \E u \in Users : /\ d.verification_token[u] = token
                    /\ d.token_expiry[u] # NULL
                    /\ t <= d.token_expiry[u]

\* get_user(None, None, Some(&body.token), None): the token goes where get_user
\* takes the e-mail, so the account is looked up by e-mail.  400 when there is
\* none, when it has no token_expiry and when that has passed.
RP_Begin(p, token, new_password) ==
  /\ proc[p].pc = "idle"
  /\ ops < MaxOps
  /\ ops' = ops + 1
  /\ LET r    == Request("reset_password", NONE, token, LiveToken(db, token, now), new_password)
         user == CHOOSE u \in ByEmail(db, token) : TRUE
     IN  proc' = [proc EXCEPT ![p] =
           IF ByEmail(db, token) = {} THEN Finish(r, "400")
           ELSE IF db.token_expiry[user] = NULL THEN Finish(r, "400")
           ELSE IF now > db.token_expiry[user] THEN Finish(r, "400")
           ELSE [r EXCEPT !.pc = "rp_update", !.u = user]]
  /\ UNCHANGED <<db, now, prev, token_cache, provider>>

\* update_user_password: UPDATE users SET password = $1 WHERE id = $2
RP_Update(p) ==
  /\ proc[p].pc = "rp_update"
  /\ db' = [db EXCEPT !.password[proc[p].u] = proc[p].n]
  /\ proc' = [proc EXCEPT ![p].pc = "rp_clear"]
  /\ UNCHANGED <<now, ops, prev, token_cache, provider>>

\* verifed_token(&body.token): UPDATE users SET verified = true,
\* verification_token = NULL, token_expiry = NULL WHERE verification_token = $1
RP_Clear(p) ==
  /\ proc[p].pc = "rp_clear"
  /\ db' = [db EXCEPT
       !.verification_token = [u \in Users |-> IF @[u] = proc[p].x THEN NONE ELSE @[u]],
       !.token_expiry = [u \in Users |->
          IF db.verification_token[u] = proc[p].x THEN NULL ELSE @[u]]]
  /\ proc' = [proc EXCEPT ![p] = Finish(proc[p], "200")]
  /\ UNCHANGED <<now, ops, prev, token_cache, provider>>

\* ------------------------------------------------------------------ login_user
\* Config.jwt_maxage, the JWT_MAXAGE setting: the lifetime of a session token
jwt_maxage == 1

\* encode(&Header::new(Algorithm::RS256), &TokenClaims{sub, role, iat, exp, ..},
\* encoding_key): a token under the RSA key, which is not a token that carries
\* the HS256 signature under JWT_SECRET (signed); an error for the nil identifier
create_token_rsa(user_id, role, t) ==
  [ok    |-> user_id # NONE,
   value |-> [signed |-> FALSE, rsa |-> TRUE, exp |-> t + jwt_maxage, sub |-> user_id,
              role |-> role]]

\* decode::<TokenClaims>(token, decoding_key, &Validation::new(Algorithm::RS256)):
\* the claims of a token under the RSA key that has not run out, or an error
decode_token(token, t) ==
  [ok |-> token.rsa /\ t <= token.exp, claims |-> [sub |-> token.sub, role |-> token.role]]

\* get_user by e-mail (400 when there is none), verify_password (400 when it is
\* wrong), create_token_rsa, and the answer 200 that sets the cookie "token"
login_user(p, u, password_ok) ==
  /\ proc[p].pc = "idle"
  /\ ops < MaxOps
  /\ ops' = ops + 1
  /\ LET r     == Request("login_user", u, NONE, password_ok, 0)
         token == create_token_rsa(u, db.role[u], now)
     IN  proc' = [proc EXCEPT ![p] =
           IF ~UserExists(db, u) THEN Finish(r, "400")
           ELSE IF ~password_ok THEN Finish(r, "400")
           ELSE IF ~token.ok THEN Finish(r, "500")
           ELSE Finish([r EXCEPT !.cookie = [some |-> TRUE, value |-> token.value]], "200")]
  /\ UNCHANGED <<db, now, prev, token_cache, provider>>

\* ------------------------------------------------------- RoleCheckMiddleware
\* extract_user_role: the role claim of the cookie "token" when decode_token
\* accepts it, UserRole::User without the cookie or when it does not
extract_user_role(cookie, t) ==
  IF ~cookie.some THEN "user"
  ELSE IF ~decode_token(cookie.value, t).ok THEN "user"
  ELSE decode_token(cookie.value, t).claims.role

\* the wrapped service of a request AuthMiddleware passed on: 403 unless the
\* extracted role is one of the route's roles
RC_Call(p, roles) ==
  /\ proc[p].pc = "done"
  /\ proc[p].op = "AuthMiddleware::call"
  /\ proc[p].res = "pass"
  /\ LET user_role == extract_user_role(proc[p].cookie, now)
     IN  proc' = [proc EXCEPT ![p] =
           Finish([proc[p] EXCEPT !.op = "RoleCheckMiddleware::call", !.awarded = roles,
                                  !.kind = user_role],
                  IF user_role \in roles THEN "admitted" ELSE "403")]
  /\ UNCHANGED <<db, now, ops, prev, token_cache, provider>>

\* ---------------------------------------------------------- specifications
\* one worker, for the specifications in which one request follows the other
OneWorker == {CHOOSE q \in Procs : TRUE}

\* requests served one after the other: none begins while another is open
NoOtherRequest(p) == \A q \in Procs \ {p} : proc[q].pc = "idle"

Init ==
  /\ db = EmptyDB
  /\ proc = [p \in Procs |-> Idle]
  /\ now = 0
  /\ ops = 0
  /\ prev = NoPrev
  /\ token_cache = NoToken
  /\ provider = <<>>

\* concurrent check_and_award_achievements calls over a store in which the
\* user has completed some lessons and holds some achievement rows
InitAward ==
  /\ \E done \in SUBSET {"l1", "l2"}, pre \in {"absent", "assigned", "earned"} :
       db = [EmptyDB EXCEPT
               !.user_lesson_progress = [k \in Users \X LessonIds |->
                  IF k[1] = "u1" /\ k[2] \in done
                  THEN [exists |-> TRUE, is_completed |-> TRUE, progress |-> NULL, completed_at |-> NULL]
                  ELSE NoULP],
               !.user_achievement = [k \in Users \X AchIds |->
                  IF k = <<"u1", "a1">> /\ pre = "assigned"
                  THEN [exists |-> TRUE, earned |-> FALSE, earned_at |-> NULL]
                  ELSE IF k = <<"u1", "a1">> /\ pre = "earned"
                  THEN [exists |-> TRUE, earned |-> TRUE, earned_at |-> 0]
                  ELSE NoUA]]
  /\ proc = [p \in Procs |-> Idle]
  /\ now = 1
  /\ ops = 0
  /\ prev = NoPrev
  /\ token_cache = NoToken
  /\ provider = <<>>

NextAward ==
  \/ \E p \in Procs, action \in {"lesson_completed", "custom"}, value \in {NULL, 2} :
       CA_Begin(p, "u1", action, value)
  \/ \E p \in Procs : CA_Select(p)
  \/ \E p \in Procs : CA_Upsert(p)
  \/ \E p \in Procs : CA_Commit(p)
  \/ \E p \in Procs : CA_Deadlock(p)
  \/ \E p \in Procs : Return(p)

SpecAward == InitAward /\ [][NextAward]_vars

\* one check_and_award_achievements call at a time, for every user, trigger
\* kind and value, over a store with some progress, purchases and statistics
InitAwardSeq ==
  /\ \E done \in SUBSET {"l1", "l2"}, pre \in {"absent", "assigned", "earned"},
        bought \in {0, 1}, stat \in {0, 2} :
       db = [EmptyDB EXCEPT
               !.user_lesson_progress = [k \in Users \X LessonIds |->
                  IF k[1] = "u1" /\ k[2] \in done
                  THEN [exists |-> TRUE, is_completed |-> TRUE, progress |-> NULL, completed_at |-> NULL]
                  ELSE NoULP],
               !.user_courses = [k \in Users \X Courses |->
                  IF k = <<"u1", "c1">> THEN bought ELSE 0],
               !.lesson_comments = [u \in Users |-> IF u = "u1" THEN stat ELSE 0],
               !.login_streak = [u \in Users |-> IF u = "u2" THEN stat ELSE 0],
               !.user_achievement = [k \in Users \X AchIds |->
                  IF k[2] \in {"a1", "a7"} /\ pre = "assigned"
                  THEN [exists |-> TRUE, earned |-> FALSE, earned_at |-> NULL]
                  ELSE IF k[2] \in {"a1", "a5"} /\ pre = "earned"
                  THEN [exists |-> TRUE, earned |-> TRUE, earned_at |-> 0]
                  ELSE NoUA]]
  /\ proc = [p \in Procs |-> Idle]
  /\ now = 1
  /\ ops = 0
  /\ prev = NoPrev
  /\ token_cache = NoToken
  /\ provider = <<>>

NextAwardSeq ==
  \/ \E p \in Procs, u \in Users, action \in TriggerKinds, value \in {NULL, 2} :
       NoOtherRequest(p) /\ CA_Begin(p, u, action, value)
  \/ \E p \in Procs : CA_Select(p)
  \/ \E p \in Procs : CA_Upsert(p)
  \/ \E p \in Procs : CA_Commit(p)
  \/ \E p \in Procs : Return(p)

SpecAwardSeq == InitAwardSeq /\ [][NextAwardSeq]_vars

\* the achievement engine with its callers, one request after the other:
\* progress updates (completing and un-completing lessons), manual awards and
\* assignments, and the clock
NextAch ==
  \/ \E p \in Procs, action \in {"lesson_completed", "course_completed"} :
       NoOtherRequest(p) /\ CA_Begin(p, "u1", action, NULL)
  \/ \E p \in Procs : CA_Next(p)
  \/ \E p \in Procs : CA_Select(p)
  \/ \E p \in Procs : CA_Upsert(p)
  \/ \E p \in Procs : CA_Commit(p)
  \/ \E p \in Procs, a \in {"a1", "a2"}  :
       NoOtherRequest(p) /\ earn_achievement(p, "u1", a)
  \/ \E p \in Procs, a \in {"a1", "a2"}  :
       NoOtherRequest(p) /\ assign_achievement_to_user(p, "u1", a)
  \/ \E p \in Procs, l \in {"l1", "l2"}, is_completed \in BOOLEAN :
       NoOtherRequest(p) /\ ULP_Begin(p, "u1", l, is_completed, NULL)
  \/ \E p \in Procs : ULP_Course(p)
  \/ \E p \in Procs : ULP_Total(p)
  \/ \E p \in Procs : ULP_Completed(p)
  \/ \E p \in Procs : ULP_UpsertCP(p)
  \/ \E p \in Procs : ULP_Commit(p)
  \/ \E p \in Procs : Return(p)
  \/ Tick

SpecAch == Init /\ [][NextAch]_vars

\* access decisions, one request after the other, for an account that is an
\* administrator or not, over subscriptions as they are created, cancelled,
\* re-activated, dated and expired, and over purchases
InitAccess ==
  /\ \E r \in {"admin", "user"} :
       db = [EmptyDB EXCEPT !.role = [u \in Users |-> IF u = "u1" THEN r ELSE "user"]]
  /\ proc = [p \in Procs |-> Idle]
  /\ now = 0
  /\ ops = 0
  /\ prev = NoPrev
  /\ token_cache = NoToken
  /\ provider = <<>>

NextAccess ==
  \/ \E p \in Procs, s \in PaypalIds : NoOtherRequest(p) /\ SC_Begin(p, "u1", s)
  \/ \E p \in Procs : SC_Insert(p)
  \/ \E p \in Procs, s \in PaypalIds : NoOtherRequest(p) /\ cancel_subscription(p, s)
  \/ \E p \in Procs, s \in PaypalIds, status \in BOOLEAN :
       NoOtherRequest(p) /\ update_subscription_status(p, s, status)
  \/ \E p \in Procs, s \in PaypalIds, duration \in {NULL, 1} :
       NoOtherRequest(p) /\ update_subscription_end_time(p, s, duration)
  \/ \E p \in Procs, s \in PaypalIds : NoOtherRequest(p) /\ expire_subscription(p, s)
  \/ \E p \in Procs : NoOtherRequest(p) /\ PU_Begin(p, "u1", "c1")
  \/ \E p \in Procs : PU_CheckUC(p)
  \/ \E p \in Procs : PU_InsertUC(p)
  \/ \E p \in Procs : PU_Students(p)
  \/ \E p \in Procs : PU_CheckCP(p)
  \/ \E p \in Procs : PU_Total(p)
  \/ \E p \in Procs : PU_InsertCP(p)
  \/ \E p \in Procs : PU_Commit(p)
  \/ \E p \in Procs : CA_Next(p)
  \/ \E p \in Procs : CA_Select(p)
  \/ \E p \in Procs : CA_Upsert(p)
  \/ \E p \in Procs : CA_Commit(p)
  \/ \E p \in Procs, c \in Courses : NoOtherRequest(p) /\ check_user_course_access(p, "u1", c)
  \/ \E p \in Procs : Return(p)
  \/ Tick

SpecAccess == InitAccess /\ [][NextAccess]_vars

\* the same requests, with the question whether the account has an active
\* subscription
\* u1 starts with the subscription create_subscription made, with or without
\* the end_time update_subscription_end_time gives it
InitActive ==
  /\ \E end_time \in {NULL, 1} :
       db = [EmptyDB EXCEPT !.subscription["I-1"] =
               [exists |-> TRUE, user_id |-> "u1", status |-> TRUE, end_time |-> end_time]]
  /\ proc = [p \in Procs |-> Idle]
  /\ now = 0
  /\ ops = 0
  /\ prev = NoPrev
  /\ token_cache = NoToken
  /\ provider = <<>>

NextActive ==
  \/ \E p \in Procs : NoOtherRequest(p) /\ SC_Begin(p, "u1", "I-2")
  \/ \E p \in Procs : SC_Insert(p)
  \/ \E p \in Procs, s \in PaypalIds : NoOtherRequest(p) /\ cancel_subscription(p, s)
  \/ \E p \in Procs, s \in PaypalIds, status \in BOOLEAN :
       NoOtherRequest(p) /\ update_subscription_status(p, s, status)
  \/ \E p \in Procs, s \in PaypalIds, duration \in {NULL, 1} :
       NoOtherRequest(p) /\ update_subscription_end_time(p, s, duration)
  \/ \E p \in Procs, s \in PaypalIds : NoOtherRequest(p) /\ expire_subscription(p, s)
  \/ \E p \in Procs : NoOtherRequest(p) /\ check_user_has_active_subscription(p, "u1")
  \/ \E p \in Procs : Return(p)
  \/ Tick

SpecActive == InitActive /\ [][NextActive]_vars

\* the same requests, with access checks whose lookups may fail
NextReadOnly ==
  \/ NextAccess
  \/ \E p \in Procs, u \in Users, c \in {"c1", "c2"} :
       NoOtherRequest(p) /\ check_user_course_access_error(p, u, c)

SpecReadOnly == InitAccess /\ [][NextReadOnly]_vars

\* the subscription operations of concurrent workers
NextSubs ==
  \/ \E p \in Procs, s \in PaypalIds : SC_Begin(p, "u1", s)
  \/ \E p \in Procs : SC_Insert(p)
  \/ \E p \in Procs, s \in PaypalIds : cancel_subscription(p, s)
  \/ \E p \in Procs, s \in PaypalIds, status \in BOOLEAN : update_subscription_status(p, s, status)
  \/ \E p \in Procs, s \in PaypalIds, duration \in {NULL, 1} :
       update_subscription_end_time(p, s, duration)
  \/ \E p \in Procs, s \in PaypalIds : expire_subscription(p, s)
  \/ \E p \in Procs : Return(p)

SpecSubs == Init /\ [][NextSubs]_vars

\* concurrent purchases, of a course of the catalogue or of an unknown one
NextPurchase ==
  \/ \E p \in Procs, c \in {"c1", "c9"} : PU_Begin(p, "u1", c)
  \/ \E p \in Procs : PU_CheckUC(p)
  \/ \E p \in Procs : PU_InsertUC(p)
  \/ \E p \in Procs : PU_Students(p)
  \/ \E p \in Procs : PU_CheckCP(p)
  \/ \E p \in Procs : PU_Total(p)
  \/ \E p \in Procs : PU_InsertCP(p)
  \/ \E p \in Procs : PU_Commit(p)
  \/ \E p \in Procs : CA_Next(p)
  \/ \E p \in Procs : CA_Select(p)
  \/ \E p \in Procs : CA_Upsert(p)
  \/ \E p \in Procs : CA_Commit(p)
  \/ \E p \in Procs : Return(p)

SpecPurchase == Init /\ [][NextPurchase]_vars

\* concurrent purchases of one course by the two accounts
NextStudents ==
  \/ \E p \in Procs, u \in Users : PU_Begin(p, u, "c1")
  \/ \E p \in Procs : PU_CheckUC(p)
  \/ \E p \in Procs : PU_InsertUC(p)
  \/ \E p \in Procs : PU_Students(p)
  \/ \E p \in Procs : PU_CheckCP(p)
  \/ \E p \in Procs : PU_Total(p)
  \/ \E p \in Procs : PU_InsertCP(p)
  \/ \E p \in Procs : PU_Commit(p)
  \/ \E p \in Procs : CA_Next(p)
  \/ \E p \in Procs : CA_Select(p)
  \/ \E p \in Procs : CA_Upsert(p)
  \/ \E p \in Procs : CA_Commit(p)
  \/ \E p \in Procs : Return(p)

SpecStudents == Init /\ [][NextStudents]_vars

\* progress updates, purchases and edits of the course's lessons, one request
\* after the other, all served by one worker
NoRequest == \A q \in Procs : proc[q].pc = "idle"

NextProgress ==
  \/ \E p \in OneWorker, l \in {"l1", "l2"}, is_completed \in BOOLEAN, progress \in {NULL, 50} :
       ULP_Begin(p, "u1", l, is_completed, progress)
  \/ \E p \in OneWorker : ULP_Course(p)
  \/ \E p \in OneWorker : ULP_Total(p)
  \/ \E p \in OneWorker : ULP_Completed(p)
  \/ \E p \in OneWorker : ULP_UpsertCP(p)
  \/ \E p \in OneWorker : ULP_Commit(p)
  \/ \E p \in OneWorker : PU_Begin(p, "u1", "c1")
  \/ \E p \in OneWorker : PU_CheckUC(p)
  \/ \E p \in OneWorker : PU_InsertUC(p)
  \/ \E p \in OneWorker : PU_Students(p)
  \/ \E p \in OneWorker : PU_CheckCP(p)
  \/ \E p \in OneWorker : PU_Total(p)
  \/ \E p \in OneWorker : PU_InsertCP(p)
  \/ \E p \in OneWorker : PU_Commit(p)
  \/ \E p \in OneWorker : CA_Next(p)
  \/ \E p \in OneWorker : CA_Select(p)
  \/ \E p \in OneWorker : CA_Upsert(p)
  \/ \E p \in OneWorker : CA_Commit(p)
  \/ NoRequest /\ AddLesson("l2")
  \/ NoRequest /\ RemoveLesson("l2")
  \/ \E p \in OneWorker : ReturnNoting(p)
  \/ Tick

SpecProgress == Init /\ [][NextProgress]_vars

\* progress updates and purchases, one after the other, whose achievement
\* checks may fail in the store
NextSwallow ==
  \/ \E p \in OneWorker, l \in {"l1", "l2"}, is_completed \in BOOLEAN, progress \in {NULL, 50} :
       ULP_Begin(p, "u1", l, is_completed, progress)
  \/ \E p \in OneWorker : ULP_Course(p)
  \/ \E p \in OneWorker : ULP_Total(p)
  \/ \E p \in OneWorker : ULP_Completed(p)
  \/ \E p \in OneWorker : ULP_UpsertCP(p)
  \/ \E p \in OneWorker : ULP_Commit(p)
  \/ \E p \in OneWorker : PU_Begin(p, "u1", "c1")
  \/ \E p \in OneWorker : PU_CheckUC(p)
  \/ \E p \in OneWorker : PU_InsertUC(p)
  \/ \E p \in OneWorker : PU_Students(p)
  \/ \E p \in OneWorker : PU_CheckCP(p)
  \/ \E p \in OneWorker : PU_Total(p)
  \/ \E p \in OneWorker : PU_InsertCP(p)
  \/ \E p \in OneWorker : PU_Commit(p)
  \/ \E p \in OneWorker : CA_Next(p)
  \/ \E p \in OneWorker : CA_Select(p)
  \/ \E p \in OneWorker : CA_Upsert(p)
  \/ \E p \in OneWorker : CA_Commit(p)
  \/ \E p \in OneWorker : CA_StoreError(p)
  \/ \E p \in OneWorker : Return(p)
  \/ Tick

SpecSwallow == Init /\ [][NextSwallow]_vars

\* progress updates of one account for the two lessons of the course c1, served
\* by concurrent workers
NextRace ==
  \/ \E p \in Procs, l \in {"l1", "l2"}, is_completed \in BOOLEAN :
       ULP_Begin(p, "u1", l, is_completed, NULL)
  \/ \E p \in Procs : ULP_Course(p)
  \/ \E p \in Procs : ULP_Total(p)
  \/ \E p \in Procs : ULP_Completed(p)
  \/ \E p \in Procs : ULP_UpsertCP(p)
  \/ \E p \in Procs : ULP_Commit(p)
  \/ \E p \in Procs : CA_Next(p)
  \/ \E p \in Procs : CA_Select(p)
  \/ \E p \in Procs : CA_Upsert(p)
  \/ \E p \in Procs : CA_Commit(p)
  \/ \E p \in Procs : CA_Deadlock(p)
  \/ \E p \in Procs : Return(p)

SpecRace == Init /\ [][NextRace]_vars

\* progress updates and purchases, one after the other, in which any statement
\* may fail, for known and unknown lessons and courses
NextAtomic ==
  \/ \E p \in OneWorker, l \in {"l1", "l2"}, is_completed \in BOOLEAN :
       ULP_Begin(p, "u1", l, is_completed, NULL)
  \/ \E p \in OneWorker, l \in {"l1", "l2"}, is_completed \in BOOLEAN :
       ULP_BeginUpsertRefused(p, "u1", l, is_completed, NULL)
  \/ \E p \in OneWorker : ULP_Aborted(p)
  \/ \E p \in OneWorker : ULP_Course(p)
  \/ \E p \in OneWorker : ULP_Total(p)
  \/ \E p \in OneWorker : ULP_Completed(p)
  \/ \E p \in OneWorker : ULP_UpsertCP(p)
  \/ \E p \in OneWorker : ULP_Commit(p)
  \/ \E p \in OneWorker, c \in {"c1", "c9"} : PU_Begin(p, "u1", c)
  \/ \E p \in OneWorker : PU_CheckUC(p)
  \/ \E p \in OneWorker : PU_InsertUC(p)
  \/ \E p \in OneWorker : PU_Students(p)
  \/ \E p \in OneWorker : PU_CheckCP(p)
  \/ \E p \in OneWorker : PU_Total(p)
  \/ \E p \in OneWorker : PU_InsertCP(p)
  \/ \E p \in OneWorker : PU_Commit(p)
  \/ \E p \in OneWorker : TX_StoreError(p)
  \/ \E p \in OneWorker : CA_Next(p)
  \/ \E p \in OneWorker : CA_Select(p)
  \/ \E p \in OneWorker : CA_Upsert(p)
  \/ \E p \in OneWorker : CA_Commit(p)
  \/ NoRequest /\ RemoveLesson("l2")
  \/ \E p \in OneWorker : Return(p)
  \/ Tick

SpecAtomic == Init /\ [][NextAtomic]_vars

\* the four-lesson course c3: the account has completed its first two lessons
\* through update_lesson_progress (the second of them at time 0), holds the
\* entitlement record or not, and goes on with the other two
InitCourse ==
  /\ \E bought \in {0, 1} :
       db = [EmptyDB EXCEPT
               !.user_courses[<<"u1", "c3">>] = bought,
               !.user_lesson_progress = [k \in Users \X LessonIds |->
                  IF k[1] = "u1" /\ k[2] \in {"l4", "l5"}
                  THEN [exists |-> TRUE, is_completed |-> TRUE, progress |-> NULL,
                        completed_at |-> NULL]
                  ELSE NoULP],
               !.course_progress[<<"u1", "c3">>] =
                  [exists |-> TRUE, progress_percentage |-> 50, total_lessons |-> 4,
                   completed_lessons |-> 2, completed_at |-> NULL, last_accessed |-> 0],
               !.user_achievement = [k \in Users \X AchIds |->
                  IF k[1] = "u1" /\ k[2] \in {"a1", "a2"}
                  THEN [exists |-> TRUE, earned |-> TRUE, earned_at |-> 0]
                  ELSE NoUA]]
  /\ proc = [p \in Procs |-> Idle]
  /\ now = 0
  /\ ops = 0
  /\ prev = NoPrev
  /\ token_cache = NoToken
  /\ provider = <<>>

NextCourse ==
  \/ \E p \in OneWorker, l \in {"l6", "l7"}, is_completed \in BOOLEAN :
       ULP_Begin(p, "u1", l, is_completed, NULL)
  \/ \E p \in OneWorker : ULP_Course(p)
  \/ \E p \in OneWorker : ULP_Total(p)
  \/ \E p \in OneWorker : ULP_Completed(p)
  \/ \E p \in OneWorker : ULP_UpsertCP(p)
  \/ \E p \in OneWorker : ULP_Commit(p)
  \/ \E p \in OneWorker : CA_Next(p)
  \/ \E p \in OneWorker : CA_Select(p)
  \/ \E p \in OneWorker : CA_Upsert(p)
  \/ \E p \in OneWorker : CA_Commit(p)
  \/ \E p \in OneWorker : Return(p)
  \/ Tick

SpecCourse == InitCourse /\ [][NextCourse]_vars

\* concurrent callers of the token cache, the provider answering with tokens
\* of a lifetime inside the margin or just beyond it, or failing
Lifetimes == {5, 61}

NextTokenCache ==
  \/ \E p \in Procs : GT_Read(p)
  \/ \E p \in Procs, outcome \in FetchOutcomes, expires_in \in Lifetimes :
       GT_Fetch(p, outcome, expires_in)
  \/ \E p \in Procs : GT_Write(p)
  \/ Tick

SpecToken == Init /\ [][NextTokenCache]_vars

\* the callers as the runtime schedules them: a caller that can take its next
\* step takes it; nothing makes the provider answer, and Client::new() sets no
\* timeout that would end the wait
SpecTokenLive ==
  /\ Init
  /\ [][NextTokenCache]_vars
  /\ \A p \in Procs : WF_vars(GT_Write(p))

\* the same callers through the copy of the function in func/handlers.rs, the
\* provider also leaving out the lifetime
NextTokenLocked ==
  \/ \E p \in Procs : HT_Lock(p)
  \/ \E p \in Procs, outcome \in FetchOutcomes, expires_in \in Lifetimes \cup {NULL} :
       HT_Fetch(p, outcome, expires_in)
  \/ Tick

SpecTokenLocked == Init /\ [][NextTokenLocked]_vars

\* webhook deliveries, one after the other, over a store that holds an active
\* subscription and over the token cache
InitWebhook ==
  /\ db = [EmptyDB EXCEPT !.subscription["I-1"] =
             [exists |-> TRUE, user_id |-> "u1", status |-> TRUE, end_time |-> NULL]]
  /\ proc = [p \in Procs |-> Idle]
  /\ now = 0
  /\ ops = 0
  /\ prev = NoPrev
  /\ token_cache = NoToken
  /\ provider = <<>>

WebhookHeaders == {RequiredHeaders} \cup {RequiredHeaders \ {h} : h \in RequiredHeaders}

WebhookBodies == HandledEvents \cup {"CUSTOMER.DISPUTE.CREATED", NONE, NotJson}

NextWebhook ==
  \/ \E p \in OneWorker, headers \in WebhookHeaders, sig \in {"genuine", "tampered"},
        body \in WebhookBodies : WH_Begin(p, headers, sig, body)
  \/ \E p \in OneWorker : GT_ReadInHandler(p)
  \/ \E p \in OneWorker, outcome \in FetchOutcomes, expires_in \in Lifetimes :
       GT_Fetch(p, outcome, expires_in)
  \/ \E p \in OneWorker : GT_Write(p)
  \/ \E p \in OneWorker, outcome \in VerifyOutcomes : WH_Verify(p, outcome)
  \/ \E p \in OneWorker : WH_Dispatch(p)
  \/ \E p \in OneWorker : Return(p)
  \/ Tick

SpecWebhook == InitWebhook /\ [][NextWebhook]_vars

\* requests through the session middleware; the account u2 may have been deleted
Subjects == Users \cup {"not-a-uuid"}
Jwts == [signed : BOOLEAN, exp : {0, 1}, sub : Subjects]
Cookies == {NoCookie} \cup {[some |-> TRUE, value |-> j] : j \in Jwts}
AuthorizationHeaders ==
  {NoHeader} \cup {[scheme |-> s, value |-> j] : s \in {"Bearer", "Basic"}, j \in Jwts}

InitSession ==
  /\ \E r \in {"user", NONE} :
       db = [EmptyDB EXCEPT !.role = [u \in Users |-> IF u = "u2" THEN r ELSE "user"]]
  /\ proc = [p \in Procs |-> Idle]
  /\ now = 0
  /\ ops = 0
  /\ prev = NoPrev
  /\ token_cache = NoToken
  /\ provider = <<>>

NextSession ==
  \/ \E p \in OneWorker, cookie \in Cookies, authorization \in AuthorizationHeaders :
       AM_Call(p, cookie, authorization)
  \/ \E p \in OneWorker, answered \in BOOLEAN : AM_GetUser(p, answered)
  \/ \E p \in OneWorker : Return(p)
  \/ Tick

SpecSession == InitSession /\ [][NextSession]_vars

\* the tokens a client can send: under the HS256 secret, under the RSA key or under neither
RoleJwts ==
  {j \in [signed : BOOLEAN, rsa : BOOLEAN, exp : {0, 1}, sub : {"u1"}, role : {"admin", "user"}] :
     ~(j.signed /\ j.rsa)}
RoleCookies == {NoCookie} \cup {[some |-> TRUE, value |-> j] : j \in RoleJwts}
RoleHeaders == {NoHeader} \cup {[scheme |-> "Bearer", value |-> j] : j \in RoleJwts}

\* sign-ins, and requests that present the cookie a sign-in answered with, as
\* the cookie or as a Bearer token, or another token
Issued == {proc[q].cookie : q \in {w \in Procs : proc[w].pc = "done" /\ proc[w].op = "login_user"
                                                /\ proc[w].res = "200"}}

NextLogin ==
  \/ \E p \in Procs, password_ok \in BOOLEAN : login_user(p, "u1", password_ok)
  \/ \E p \in Procs, c \in Issued : AM_Call(p, c, NoHeader)
  \/ \E p \in Procs, c \in Issued : AM_Call(p, NoCookie, [scheme |-> "Bearer", value |-> c.value])
  \/ \E p \in Procs, c \in {k \in RoleCookies : k.some /\ k.value.signed} :
       NoOtherRequest(p) /\ AM_Call(p, c, NoHeader)
  \/ \E p \in Procs : AM_GetUser(p, TRUE)
  \/ \E p \in Procs : Return(p)
  \/ Tick

SpecLogin == InitAccess /\ [][NextLogin]_vars

\* requests to the routes of the /users scope
\* RoleCheck::new(vec![User, Admin]) on /users/me, RoleCheck::new(vec![Admin]) on /users
RouteRoles == {{"user", "admin"}, {"admin"}}

NextRole ==
  \/ \E p \in OneWorker, cookie \in RoleCookies, authorization \in RoleHeaders :
       AM_Call(p, cookie, authorization)
  \/ \E p \in OneWorker : AM_GetUser(p, TRUE)
  \/ \E p \in OneWorker, roles \in RouteRoles : RC_Call(p, roles)
  \/ \E p \in OneWorker : Return(p)
  \/ Tick

SpecRole == InitAccess /\ [][NextRole]_vars

\* concurrent increment_user_stat calls
NextStats ==
  \/ \E p \in Procs, u \in Users, stat_type \in StatTypes : IUS_Begin(p, u, stat_type)
  \/ \E p \in Procs : IUS_Upsert(p)
  \/ \E p \in Procs : IUS_Commit(p)
  \/ \E p \in Procs : Return(p)

SpecStats == Init /\ [][NextStats]_vars

\* password resets, one request after the other: the link is asked for and
\* then used, with the token of the link or another string
NextReset ==
  \/ \E p \in OneWorker, email \in Emails \cup {"nobody@mail"} : FP_Begin(p, email)
  \/ \E p \in OneWorker, token \in ResetTokens : FP_AddToken(p, token)
  \/ \E p \in OneWorker, sent \in BOOLEAN : FP_Send(p, sent)
  \/ \E p \in OneWorker, token \in ResetTokens \cup Emails : RP_Begin(p, token, 1)
  \/ \E p \in OneWorker : RP_Update(p)
  \/ \E p \in OneWorker : RP_Clear(p)
  \/ \E p \in OneWorker : Return(p)
  \/ Tick

SpecReset == Init /\ [][NextReset]_vars

\* order captures, one after the other
CaptureStatuses == {"COMPLETED", "PENDING", "DECLINED", ""}
CustomIds == {"c1", "c2", "c9", "not-a-uuid", ""}

NextCapture ==
  \/ \E p \in OneWorker : CO_Begin(p, "u1")
  \/ \E p \in OneWorker : GT_ReadInHandler(p)
  \/ \E p \in OneWorker, outcome \in FetchOutcomes, expires_in \in Lifetimes :
       GT_Fetch(p, outcome, expires_in)
  \/ \E p \in OneWorker : GT_Write(p)
  \/ \E p \in OneWorker, outcome \in CaptureOutcomes, status \in CaptureStatuses,
        custom_id \in CustomIds : CO_Capture(p, outcome, status, custom_id)
  \/ \E p \in OneWorker : PU_CheckUC(p)
  \/ \E p \in OneWorker : PU_InsertUC(p)
  \/ \E p \in OneWorker : PU_Students(p)
  \/ \E p \in OneWorker : PU_CheckCP(p)
  \/ \E p \in OneWorker : PU_Total(p)
  \/ \E p \in OneWorker : PU_InsertCP(p)
  \/ \E p \in OneWorker : PU_Commit(p)
  \/ \E p \in OneWorker : CA_Next(p)
  \/ \E p \in OneWorker : CA_Select(p)
  \/ \E p \in OneWorker : CA_Upsert(p)
  \/ \E p \in OneWorker : CA_Commit(p)
  \/ \E p \in OneWorker : Return(p)
  \/ Tick

SpecCapture == Init /\ [][NextCapture]_vars

\* ------------------------------------------------------------------ claims
IsCheck(p) == proc[p].op = "check_and_award_achievements"

\* C1: when every worker has run check_and_award_achievements for the same
\* account and trigger concurrently (each began before the achievement was
\* earned) and the achievement qualifies in each call, exactly one call reports
\* it as newly awarded and the account holds the earned row.
C1_ExactlyOneNewlyAwarded ==
  \A u \in Users, a \in AchIds :
    (\A p \in Procs :
        /\ proc[p].pc = "done" /\ IsCheck(p) /\ proc[p].u = u
        /\ achievement[a].active /\ achievement[a].trigger_type = proc[p].kind
        /\ achievement[a].trigger_value <= proc[p].metric
        /\ a \notin proc[p].earned0)
    => /\ Cardinality({p \in Procs : a \in proc[p].awarded}) = 1
       /\ db.user_achievement[<<u, a>>].exists
       /\ db.user_achievement[<<u, a>>].earned

C1_Witness ==
  /\ \A p \in Procs :
        /\ proc[p].pc = "done" /\ IsCheck(p) /\ proc[p].u = "u1"
        /\ proc[p].kind = "lesson_completed" /\ proc[p].metric >= 1
        /\ "a1" \notin proc[p].earned0
  /\ \E p \in Procs : "a1" \in proc[p].awarded /\ proc[p].res = "ok"
  /\ \E p \in Procs : "a1" \notin proc[p].awarded

\* C3: a completed check_and_award_achievements call returns exactly the active
\* definitions of its trigger kind whose threshold the computed metric reaches
\* and that the account had not earned before the call, and afterwards the
\* account's earned achievements are the earlier ones plus those returned.
C3_ReturnsExactlyNewlyEarned ==
  \A p \in Procs :
    (proc[p].pc = "done" /\ IsCheck(p) /\ proc[p].res = "ok")
    => /\ proc[p].awarded =
            {a \in AchIds : /\ achievement[a].active
                            /\ achievement[a].trigger_type = proc[p].kind
                            /\ achievement[a].trigger_value <= proc[p].metric
                            /\ a \notin proc[p].earned0}
       /\ EarnedSet(db, proc[p].u) = proc[p].earned0 \cup proc[p].awarded

C3_Witness ==
  \E p \in Procs :
    /\ proc[p].pc = "done" /\ IsCheck(p) /\ proc[p].res = "ok"
    /\ proc[p].kind = "lesson_completed" /\ proc[p].metric = 2
    /\ "a1" \in proc[p].earned0
    /\ proc[p].awarded = {"a2"}

\* C2: achievement awards are a one-way ratchet: in every step, an earned row
\* of an account stays earned and keeps its earned-at timestamp (no operation
\* revokes it or awards it again).
C2_OneWayRatchet ==
  [][\A k \in Users \X AchIds :
       (db.user_achievement[k].exists /\ db.user_achievement[k].earned)
       => /\ db'.user_achievement[k].exists
          /\ db'.user_achievement[k].earned
          /\ db'.user_achievement[k].earned_at = db.user_achievement[k].earned_at]_vars

\* the part of C2 the code keeps: an earned row is never revoked
C2_NeverRevoked ==
  [][\A k \in Users \X AchIds :
       (db.user_achievement[k].exists /\ db.user_achievement[k].earned)
       => (db'.user_achievement[k].exists /\ db'.user_achievement[k].earned)]_vars

IsAccessCheck(p) == proc[p].pc = "done" /\ proc[p].op = "check_user_course_access"

\* the subscriptions of account u that are active at time t as the access rule
\* words it: status flag set, end_time unset or in the future
ActiveUnexpired(u, t) ==
  {s \in PaypalIds : /\ db.subscription[s].exists
                     /\ db.subscription[s].user_id = u
                     /\ db.subscription[s].status = TRUE
                     /\ (db.subscription[s].end_time = NULL \/ db.subscription[s].end_time > t)}

\* C4: for an account whose role is admin, check_user_course_access returns
\* granted for every course, whatever subscription rows the account has and
\* whether or not it holds an entitlement record.
C4_AdminAlwaysGranted ==
  \A p \in Procs :
    (IsAccessCheck(p) /\ db.role[proc[p].u] = "admin") => proc[p].res = "granted"

C4_Witness ==
  \E p \in Procs :
    /\ IsAccessCheck(p) /\ db.role[proc[p].u] = "admin"
    /\ db.user_courses[<<proc[p].u, proc[p].x>>] = 0
    /\ \E s \in PaypalIds : /\ db.subscription[s].exists
                            /\ db.subscription[s].user_id = proc[p].u
                            /\ db.subscription[s].status = FALSE
    /\ ActiveUnexpired(proc[p].u, proc[p].t0) = {}
    /\ proc[p].res = "granted"

\* C5: for a non-admin account with an active subscription (status flag set)
\* whose end_time is unset or in the future, check_user_course_access returns
\* granted for every course; so it does right after create_subscription, which
\* leaves end_time unset.
C5_ActiveSubscriptionGrants ==
  \A p \in Procs :
    (/\ IsAccessCheck(p) /\ db.role[proc[p].u] # "admin"
     /\ ActiveUnexpired(proc[p].u, proc[p].t0) # {})
    => proc[p].res = "granted"

\* C6: check_user_course_access denies a non-admin account that has no
\* entitlement record for the course and no active unexpired subscription, and
\* it grants only when the account is an admin, has an active unexpired
\* subscription or holds the entitlement record for that course.
C6_GrantedOnlyByRule ==
  \A p \in Procs :
    IsAccessCheck(p) =>
      LET rule == \/ db.role[proc[p].u] = "admin"
                  \/ ActiveUnexpired(proc[p].u, proc[p].t0) # {}
                  \/ db.user_courses[<<proc[p].u, proc[p].x>>] > 0
      IN  /\ proc[p].res \in {"granted", "denied"}
          /\ proc[p].res = "granted" => rule
          /\ ~rule => proc[p].res = "denied"

C6_Witness ==
  \E p \in Procs :
    /\ IsAccessCheck(p) /\ db.role[proc[p].u] # "admin"
    /\ db.user_courses[<<proc[p].u, proc[p].x>>] = 0
    /\ \E s \in PaypalIds : /\ db.subscription[s].exists
                            /\ db.subscription[s].user_id = proc[p].u
                            /\ db.subscription[s].status = TRUE
                            /\ db.subscription[s].end_time # NULL
                            /\ db.subscription[s].end_time <= proc[p].t0
    /\ proc[p].res = "denied"

IsPurchase(p) == proc[p].op = "register_course_purchase"

C8_AtMostOneActiveSubscription ==
  \A u \in Users : Cardinality(ActiveOf(db, u)) <= 1

Aggregate(row) == <<row.progress_percentage, row.total_lessons, row.completed_lessons>>

\* a second update_lesson_progress call that ended well, right after a first
\* one with the same account, lesson, flag and progress
IsRepeatedUpdate(p) ==
  /\ proc[p].pc = "done" /\ proc[p].op = "update_lesson_progress" /\ proc[p].res = "ok"
  /\ prev.op = "update_lesson_progress" /\ prev.res = "ok"
  /\ prev.u = proc[p].u /\ prev.x = proc[p].x /\ prev.b = proc[p].b /\ prev.n = proc[p].n

C10_PercentageMatchesCounts ==
  \A k \in Users \X Courses :
    db.course_progress[k].exists =>
      /\ db.course_progress[k].progress_percentage >= 0
      /\ db.course_progress[k].progress_percentage <= 100
      /\ db.course_progress[k].progress_percentage = 100 =>
           /\ db.course_progress[k].completed_lessons = db.course_progress[k].total_lessons
           /\ db.course_progress[k].total_lessons > 0

IsProgressUpdate(p) ==
  proc[p].pc = "done" /\ proc[p].op = "update_lesson_progress" /\ proc[p].res = "ok"

\* C11: in the four-lesson course, when the account has completed three
\* lessons through update_lesson_progress the course percentage is 75; when it
\* has completed the fourth the percentage is 100, the course_completed trigger
\* has been evaluated and the account holds the earned award of the active
\* course_completed achievement of threshold 1.
C11_FourthLessonAwardsCourse ==
  \A p \in Procs :
    (IsProgressUpdate(p) /\ proc[p].c = "c3" /\ proc[p].b = TRUE) =>
      LET n == Cardinality(CompletedIn(db, proc[p].u, "c3"))
          row == db.course_progress[<<proc[p].u, "c3">>]
      IN  /\ n = 3 => row.progress_percentage = 75
          /\ n = 4 => /\ row.progress_percentage = 100
                      /\ proc[p].kind = "course_completed"
                      /\ db.user_achievement[<<proc[p].u, "a4">>].exists
                      /\ db.user_achievement[<<proc[p].u, "a4">>].earned

\* the same for an account that holds the entitlement record of the course
C11_FourthLessonAwardsPurchasedCourse ==
  db.user_courses[<<"u1", "c3">>] > 0 => C11_FourthLessonAwardsCourse

IsTokenCall(p) ==
  /\ proc[p].pc = "done"
  /\ proc[p].op \in {"get_paypal_token", "handlers::get_paypal_token"}

\* the cached token the call found is one the provider still accepts for more
\* than the safety margin
FoundFresh(p) == proc[p].seen # 0 /\ proc[p].b

\* C12: get_paypal_token returns the cached token without a token request only
\* when the call's time is earlier than the token's real expiry minus the
\* 60-second margin; when the cached token's real expiry is within the margin
\* or past, the call makes a token request and does not return that token.
C12_RefreshWithinMargin ==
  \A p \in Procs :
    IsTokenCall(p) =>
      /\ ~proc[p].fetched => (FoundFresh(p) /\ proc[p].ret = proc[p].seen)
      /\ ~FoundFresh(p) =>
            /\ proc[p].fetched
            /\ (proc[p].res = "ok" /\ proc[p].seen # 0) => proc[p].ret # proc[p].seen

\* the cached token is still accepted by the provider but only inside the margin
C12_Witness ==
  \E p \in Procs :
    /\ IsTokenCall(p) /\ proc[p].op = "get_paypal_token" /\ proc[p].res = "ok"
    /\ proc[p].seen # 0 /\ ~proc[p].b
    /\ now < provider[proc[p].seen]
    /\ proc[p].fetched /\ proc[p].ret # proc[p].seen

C14_FetchFailureIsAnError ==
  \A p \in Procs :
    (IsTokenCall(p) /\ proc[p].fetched /\ proc[p].tok = 0) => proc[p].res = "ProviderAuthError"

\* the part of C14 about the cache: a failed token request leaves it as it was
C14_FetchFailureKeepsCache ==
  [][\A p \in Procs :
       (proc[p].pc = "gt_fetch" /\ proc'[p].pc = "done") => token_cache' = token_cache]_vars

IsWebhook(p) ==
  /\ proc[p].pc = "done"
  /\ proc[p].op = "paypal_webhook"

\* C15: a webhook request that the provider did not positively verify is
\* answered with a client error (400).
C15_UnverifiedIsClientError ==
  \A p \in Procs : (IsWebhook(p) /\ ~proc[p].verified) => proc[p].res = "400"

\* the parts of C15 that do hold: an unverified request is never answered 200,
\* it never reaches the dispatch on event_type, and no webhook request changes a
\* stored row
C15_UnverifiedNeverSucceeds ==
  /\ \A p \in Procs : (IsWebhook(p) /\ ~proc[p].verified) => proc[p].res # "200"
  /\ \A p \in Procs : proc[p].pc = "wh_dispatch" => proc[p].verified
  /\ db.subscription["I-1"].status
  /\ \A u \in Users, c \in Courses : db.user_courses[<<u, c>>] = 0

\* C16: a webhook request that lacks one of the five signature headers is
\* answered 400 in its first step, without a call of the verification endpoint
\* or of the token endpoint, and without a change of the store or the token cache.
C16_MissingHeaderIsMalformed ==
  /\ [](\A p \in Procs :
         (IsWebhook(p) /\ ~(RequiredHeaders \subseteq proc[p].headers)) =>
           /\ proc[p].res = "400"
           /\ ~proc[p].called
           /\ ~proc[p].fetched)
  /\ [][\A p \in Procs :
         ( /\ proc'[p] # proc[p]
           /\ proc'[p].op = "paypal_webhook"
           /\ ~(RequiredHeaders \subseteq proc'[p].headers) ) =>
           /\ proc'[p].pc = "done"
           /\ db' = db
           /\ token_cache' = token_cache
           /\ provider' = provider]_vars

C16_Witness ==
  \E p \in Procs :
    /\ IsWebhook(p)
    /\ proc[p].headers = RequiredHeaders \ {"PAYPAL-CERT-URL"}
    /\ proc[p].sig = "genuine"
    /\ proc[p].x = "BILLING.SUBSCRIPTION.CANCELLED"
    /\ proc[p].res = "400"

\* C17: a verified webhook payload is answered 200 when its event_type is one
\* of the handled types, and 400 when it is any other type or is missing.
C17_DispatchByEventType ==
  \A p \in Procs :
    (IsWebhook(p) /\ proc[p].verified) =>
      proc[p].res = (IF proc[p].x \in HandledEvents THEN "200" ELSE "400")

C17_Witness ==
  \E p \in Procs :
    /\ IsWebhook(p)
    /\ proc[p].verified
    /\ proc[p].x = NONE
    /\ proc[p].res = "400"

IsSession(p) ==
  /\ proc[p].pc = "done"
  /\ proc[p].op = "AuthMiddleware::call"

\* the token the request carries: the cookie's, or else the bearer token of
\* the Authorization header
Carried(p) ==
  IF proc[p].cookie.some THEN proc[p].cookie.value
  ELSE IF proc[p].authorization.scheme = "Bearer" THEN proc[p].authorization.value
  ELSE NoJwt

CarriesToken(p) == proc[p].cookie.some \/ proc[p].authorization.scheme = "Bearer"

Verifies(p) ==
  /\ Carried(p).signed
  /\ proc[p].t0 <= Carried(p).exp
  /\ Carried(p).sub \in Users

\* C18: the session middleware answers TokenNotProvided when neither the
\* cookie nor the Authorization header carries a token, InvalidToken when the
\* token is not signed, has run out or has a subject that is no identifier,
\* UserNoLongerExist when the store answers that the subject has no account,
\* and passes the request on only with a verified token and the stored account
\* of its subject; no step of it changes the store.
C18_SessionResolver ==
  /\ [](\A p \in Procs :
         IsSession(p) =>
           /\ ~CarriesToken(p) => proc[p].res = "TokenNotProvided"
           /\ (CarriesToken(p) /\ ~Verifies(p)) => proc[p].res = "InvalidToken"
           /\ (CarriesToken(p) /\ Verifies(p) /\ ~proc[p].b
                 /\ ~UserExists(db, Carried(p).sub)) => proc[p].res = "UserNoLongerExist"
           /\ proc[p].res = "pass" =>
                 /\ CarriesToken(p) /\ Verifies(p)
                 /\ proc[p].u = Carried(p).sub
                 /\ UserExists(db, proc[p].u))
  /\ [][\A p \in Procs :
         (proc'[p] # proc[p] /\ proc'[p].op = "AuthMiddleware::call") => db' = db]_vars

C18_Witness ==
  \E p \in Procs :
    /\ IsSession(p)
    /\ proc[p].res = "UserNoLongerExist"
    /\ ~proc[p].cookie.some
    /\ proc[p].authorization.scheme = "Bearer"
    /\ proc[p].t0 = 1

\* the rows a finished request committed before its achievement checks
CommittedRows(p) ==
  IF proc[p].op = "update_lesson_progress"
  THEN /\ db.user_lesson_progress[<<proc[p].u, proc[p].x>>].exists
       /\ db.user_lesson_progress[<<proc[p].u, proc[p].x>>].is_completed = proc[p].b
       /\ db.course_progress[<<proc[p].u, proc[p].c>>].exists
       /\ db.course_progress[<<proc[p].u, proc[p].c>>].progress_percentage = proc[p].pct
       /\ db.course_progress[<<proc[p].u, proc[p].c>>].completed_lessons = proc[p].completed
  ELSE /\ db.user_courses[<<proc[p].u, proc[p].c>>] = 1
       /\ db.course_progress[<<proc[p].u, proc[p].c>>].exists

\* C19: an update_lesson_progress or register_course_purchase call one of
\* whose achievement checks returned an error still ends Ok with the rows of
\* its committed transaction in the store, and the failing step of the check
\* changes no stored row.
C19_CheckFailureIsSwallowed ==
  /\ [](\A p \in Procs :
         ( /\ proc[p].pc = "done"
           /\ proc[p].op \in {"update_lesson_progress", "register_course_purchase"}
           /\ proc[p].failed ) =>
           proc[p].res = "ok" /\ CommittedRows(p))
  /\ [][\A p \in Procs :
         ( /\ proc[p].op \in {"update_lesson_progress", "register_course_purchase"}
           /\ ~proc[p].failed /\ proc'[p].failed ) => db' = db]_vars

C19_Witness ==
  \E p \in Procs :
    /\ proc[p].pc = "done"
    /\ proc[p].op = "update_lesson_progress"
    /\ proc[p].failed
    /\ proc[p].b
    /\ proc[p].pct = 100
    /\ db.user_achievement[<<proc[p].u, "a4">>].earned
    /\ ~db.user_achievement[<<proc[p].u, "a1">>].earned

IsCapture(p) ==
  /\ proc[p].pc = "done"
  /\ proc[p].op = "capture_order"

\* the provider reported the capture COMPLETED for a course identifier
CaptureCompleted(r) ==
  /\ r.op = "capture_order"
  /\ r.status = "COMPLETED"
  /\ r.x \in Courses \cup {"c9"}

C21_NoLockAcrossRequest ==
  \A p \in Procs : proc[p].pc \in {"gt_fetch", "ht_fetch"} => token_cache.holder # p

\* C22: after a successful update_lesson_progress the Course Progress row of
\* the account and the lesson's course holds the current number of lessons of
\* the course, the number of the account's completed lessons in it and the
\* percentage of the two.
C22_FreshNumbersStored ==
  \A p \in Procs :
    IsProgressUpdate(p) =>
      LET row       == db.course_progress[<<proc[p].u, proc[p].c>>]
          total     == Cardinality(LessonsOf(db, proc[p].c))
          completed == Cardinality(CompletedIn(db, proc[p].u, proc[p].c))
      IN  /\ row.exists
          /\ row.total_lessons = total
          /\ row.completed_lessons = completed
          /\ row.progress_percentage = Percentage(completed, total)

\* the part of C22 that holds: the completed count and the percentage are the
\* freshly computed ones
C22_FreshCountAndPercentage ==
  \A p \in Procs :
    IsProgressUpdate(p) =>
      LET row       == db.course_progress[<<proc[p].u, proc[p].c>>]
          total     == Cardinality(LessonsOf(db, proc[p].c))
          completed == Cardinality(CompletedIn(db, proc[p].u, proc[p].c))
      IN  /\ row.exists
          /\ row.completed_lessons = completed
          /\ row.progress_percentage = Percentage(completed, total)

AllCommitted == \A p \in Procs : proc[p].pc \in {"idle", "done"}

\* C23: once every concurrent update_lesson_progress call has committed, the
\* Course Progress row's completed_lessons is the number of the account's
\* completed Lesson Progress rows of the course, and its percentage is 100 when
\* all the lessons are completed.
C23_NoDriftAfterConcurrentUpdates ==
  \A k \in Users \X Courses :
    (AllCommitted /\ db.course_progress[k].exists) =>
      /\ db.course_progress[k].completed_lessons = Cardinality(CompletedIn(db, k[1], k[2]))
      /\ CompletedIn(db, k[1], k[2]) = LessonsOf(db, k[2]) =>
            db.course_progress[k].progress_percentage = 100

\* C24: an update with isCompleted = true of a lesson that is already completed
\* and stamped leaves the Lesson Progress row's completion timestamp as it was.
C24_CompletionStampKept ==
  [][\A k \in Users \X LessonIds :
       ( /\ db.user_lesson_progress[k].exists
         /\ db.user_lesson_progress[k].is_completed
         /\ db.user_lesson_progress[k].completed_at # NULL
         /\ db'.user_lesson_progress[k].is_completed ) =>
         db'.user_lesson_progress[k].completed_at = db.user_lesson_progress[k].completed_at]_vars

\* the other half of C24, which does not hold either: a completed Lesson
\* Progress row has a completion timestamp (the inserting statement sets none)
C24_CompletedRowIsStamped ==
  \A k \in Users \X LessonIds :
    (db.user_lesson_progress[k].exists /\ db.user_lesson_progress[k].is_completed) =>
      db.user_lesson_progress[k].completed_at # NULL

\* C25: after a successful update_lesson_progress that computed a percentage
\* of 100 the Course Progress row has a completion timestamp, whether the call
\* inserted the row or updated it.
C25_StampedWhenComplete ==
  \A p \in Procs :
    (IsProgressUpdate(p) /\ proc[p].pct = 100) =>
      db.course_progress[<<proc[p].u, proc[p].c>>].completed_at # NULL

\* the half of C25 that holds: no step clears a Course Progress completion
\* timestamp
C25_StampNeverCleared ==
  [][\A k \in Users \X Courses :
       db.course_progress[k].completed_at # NULL =>
         db'.course_progress[k].completed_at # NULL]_vars

\* C26: every committed update_lesson_progress call has evaluated the
\* lesson_completed trigger, whatever its isCompleted argument, and has
\* evaluated the course_completed trigger exactly when the computed percentage
\* is 100 or more.
C26_TriggersAfterProgress ==
  \A p \in Procs :
    IsProgressUpdate(p) =>
      /\ "lesson_completed" \in proc[p].evaluated
      /\ "course_completed" \in proc[p].evaluated <=> proc[p].pct >= 100

\* the parts of C26 that hold: the course_completed trigger is evaluated
\* exactly at 100, and a trigger is evaluated only when the progress
\* transaction has committed
C26_CourseTriggerAtHundred ==
  /\ \A p \in Procs :
       IsProgressUpdate(p) =>
         /\ "course_completed" \in proc[p].evaluated <=> proc[p].pct >= 100
         /\ "lesson_completed" \in proc[p].evaluated <=> proc[p].b
  /\ \A p \in Procs :
       (proc[p].op = "update_lesson_progress" /\ proc[p].evaluated # {}) =>
         /\ db.user_lesson_progress[<<proc[p].u, proc[p].x>>].exists
         /\ db.course_progress[<<proc[p].u, proc[p].c>>].exists

IsMutation(r) == r.op \in {"update_lesson_progress", "register_course_purchase"}

\* C27: an update_lesson_progress or register_course_purchase call in which a
\* statement failed (a refused write, an unknown lesson or course, a failed
\* commit) returns an error, and a call that returns an error has committed
\* nothing: no step of a call that has not committed changes a stored row.
C27_AllOrNothing ==
  /\ [](\A p \in Procs :
         (proc[p].pc = "done" /\ IsMutation(proc[p])) =>
           /\ proc[p].res \in {"ok", "err"}
           /\ proc[p].res = "err" <=> ~proc[p].committed)
  /\ [][\A p \in OneWorker :
         (IsMutation(proc'[p]) /\ ~proc'[p].committed) => db' = db]_vars

C27_Witness ==
  \E p \in Procs :
    /\ proc[p].pc = "done"
    /\ proc[p].op = "update_lesson_progress"
    /\ proc[p].res = "err"
    /\ proc[p].b
    /\ proc[p].total = 2
    /\ proc[p].completed = 1
    /\ ~db.user_lesson_progress[<<proc[p].u, proc[p].x>>].exists

\* C28: when a verified webhook event has been answered 200, the store shows
\* its effect: after a subscription cancelled, expired or suspended event no
\* subscription of the store (it holds the one the events are about) is
\* active, and after a capture completed event an entitlement record exists.
C28_LifecycleEventChangesState ==
  \A p \in Procs :
    (IsWebhook(p) /\ proc[p].verified /\ proc[p].res = "200") =>
      /\ proc[p].x \in {"BILLING.SUBSCRIPTION.CANCELLED", "BILLING.SUBSCRIPTION.EXPIRED",
                        "BILLING.SUBSCRIPTION.SUSPENDED"} =>
            \A s \in PaypalIds : ~(db.subscription[s].exists /\ db.subscription[s].status)
      /\ proc[p].x = "PAYMENT.CAPTURE.COMPLETED" =>
            \E k \in Users \X Courses : db.user_courses[k] = 1

\* C29: a check_user_course_access call, whatever it returns (granted by the
\* admin role, by a subscription or by a purchase, denied, or an error), leaves
\* every stored row as it was.
C29_AccessCheckIsReadOnly ==
  [][\A p \in Procs :
       (proc'[p] # proc[p] /\ proc'[p].op = "check_user_course_access") => db' = db]_vars

C29_Witness ==
  \E p \in Procs :
    /\ IsAccessCheck(p)
    /\ proc[p].res = "granted"
    /\ db.role[proc[p].u] # "admin"
    /\ ActiveOf(db, proc[p].u) # {}
    /\ db.user_courses[<<proc[p].u, "c1">>] = 1

\* the trigger kinds check_and_award_achievements computes a metric for
RecognisedKinds ==
  {"course_completed", "lesson_completed", "courses_enrolled", "comments_created",
   "login_streak"}

\* C30: a completed check_and_award_achievements call for a trigger kind that
\* is none of the five recognised ones has used the caller's value as its
\* metric, or 1 when the caller gave none, and has awarded exactly the active
\* definitions of that kind with a threshold up to that value that the account
\* had not earned.
C30_UnrecognisedKindUsesCallerValue ==
  \A p \in Procs :
    (proc[p].pc = "done" /\ IsCheck(p) /\ proc[p].res = "ok"
       /\ proc[p].kind \notin RecognisedKinds) =>
      LET v == IF proc[p].n = NULL THEN 1 ELSE proc[p].n
      IN  /\ proc[p].metric = v
          /\ proc[p].awarded =
               {a \in AchIds \ proc[p].earned0 :
                  /\ achievement[a].trigger_type = proc[p].kind
                  /\ achievement[a].active
                  /\ achievement[a].trigger_value <= v}
          /\ \A a \in proc[p].awarded : db.user_achievement[<<proc[p].u, a>>].earned

C30_Witness ==
  \E p \in Procs :
    /\ proc[p].pc = "done" /\ IsCheck(p) /\ proc[p].res = "ok"
    /\ proc[p].kind = "custom"
    /\ proc[p].n = 2
    /\ proc[p].awarded = {"a6"}

\* a call without a value: the metric is 1 and the definition with threshold 2
\* is not awarded
C30_DefaultIsOne ==
  \A p \in Procs :
    (proc[p].pc = "done" /\ IsCheck(p) /\ proc[p].res = "ok"
       /\ proc[p].kind = "custom" /\ proc[p].n = NULL) =>
      proc[p].metric = 1 /\ proc[p].awarded = {}

\* the courses every lesson of which the account has completed
FullyCompleted(d, u) ==
  {c \in Courses : LessonsOf(d, c) # {} /\ CompletedIn(d, u, c) = LessonsOf(d, c)}

\* C31: the metric check_and_award_achievements computes for the
\* course_completed trigger is the number of courses every lesson of which the
\* account has completed, with or without an entitlement record.
C31_MetricCountsCompletedCourses ==
  \A p \in Procs :
    (proc[p].pc = "ca_select" /\ proc[p].kind = "course_completed") =>
      proc[p].metric = Cardinality(FullyCompleted(db, proc[p].u))

\* what the metric is: the fully completed courses among those the account
\* holds an entitlement record for
C31_MetricCountsPurchasedCourses ==
  \A p \in Procs :
    (proc[p].pc = "ca_select" /\ proc[p].kind = "course_completed") =>
      proc[p].metric =
        Cardinality({c \in FullyCompleted(db, proc[p].u) : db.user_courses[<<proc[p].u, c>>] > 0})

\* C32: a token request to the provider that is in flight eventually ends.
C32_TokenRequestEnds ==
  \A p \in Procs : (proc[p].pc = "gt_fetch") ~> (proc[p].pc # "gt_fetch")

\* the calls end when the provider answers every request
C32_EndsWhenAnswered ==
  (\A p \in Procs : WF_vars(\E outcome \in FetchOutcomes, expires_in \in Lifetimes :
                               GT_Fetch(p, outcome, expires_in)))
    => C32_TokenRequestEnds

\* C33: in every state the students counter of a course equals the number of
\* entitlement records of the course (both start at none), whatever the order
\* and interleaving of the purchases.
C33_StudentsCountsEntitlements ==
  \A c \in Courses :
    db.students[c] = SumOver(db.user_courses, {k \in Users \X Courses : k[2] = c})

C33_Witness ==
  /\ db.students["c1"] = 2
  /\ db.user_courses[<<"u1", "c1">>] = 1
  /\ db.user_courses[<<"u2", "c1">>] = 1
  /\ db.payments[<<"u1", "c1">>] + db.payments[<<"u2", "c1">>] = 3

\* subscription s is one the access rule accepts at time t
Qualifies(s, t) ==
  /\ db.subscription[s].exists
  /\ db.subscription[s].status = TRUE
  /\ db.subscription[s].end_time # NULL
  /\ db.subscription[s].end_time > t

\* the access check denies the owner of subscription s every course the owner
\* has no entitlement record for, unless the owner is an admin or another
\* subscription of the owner qualifies
NoLongerGrants(s) ==
  db.subscription[s].exists =>
    LET u == db.subscription[s].user_id
    IN  ( /\ ~IsAdmin(db, u)
          /\ \A s2 \in PaypalIds \ {s} : ~(db.subscription[s2].user_id = u /\ Qualifies(s2, now)) )
        => \A c \in Courses : ~HasPurchased(db, u, c) => ~Access(db, u, c, now)

\* C34: when expire_subscription or cancel_subscription has completed for a
\* subscription, the access check no longer grants on account of it, also when
\* the subscription had an end_time in the future.
C34_EndedSubscriptionGrantsNothing ==
  \A p \in Procs :
    (proc[p].pc = "done" /\ proc[p].op \in {"expire_subscription", "cancel_subscription"}) =>
      NoLongerGrants(proc[p].x)

\* the half of C34 that holds: after cancel_subscription
C34_CancelledSubscriptionGrantsNothing ==
  \A p \in Procs :
    (proc[p].pc = "done" /\ proc[p].op = "cancel_subscription") => NoLongerGrants(proc[p].x)

\* C35: check_user_has_active_subscription answers true exactly when the
\* subscription rule of check_user_course_access grants the account access.
C35_ActiveDefinitionsAgree ==
  \A p \in Procs :
    (proc[p].pc = "done" /\ proc[p].op = "check_user_has_active_subscription") =>
      (proc[p].res = "true" <=> SubscriptionGrants(db, proc[p].u, proc[p].t0))

\* the direction that holds: an account the access rule grants by subscription
\* is answered true
C35_GrantedImpliesActive ==
  \A p \in Procs :
    (proc[p].pc = "done" /\ proc[p].op = "check_user_has_active_subscription") =>
      (SubscriptionGrants(db, proc[p].u, proc[p].t0) => proc[p].res = "true")

\* C36: a request that presents the token a sign-in issued, while the token
\* has not run out, is not refused as an invalid token: it resolves to the
\* account that signed in.
C36_IssuedTokenIsAccepted ==
  \A p \in Procs :
    (/\ proc[p].op = "AuthMiddleware::call"
     /\ proc[p].pc \in {"am_get_user", "done"}
     /\ CarriesToken(p)
     /\ \E c \in Issued : c.value = Carried(p)
     /\ proc[p].t0 <= Carried(p).exp) =>
      (proc[p].res # "InvalidToken" /\ proc[p].u = Carried(p).sub)

\* what the code does with it instead: every token a sign-in issued is refused
C36_IssuedTokenIsRefused ==
  \A p \in Procs :
    (/\ proc[p].op = "AuthMiddleware::call"
     /\ proc[p].pc = "done"
     /\ CarriesToken(p)
     /\ Carried(p).rsa) =>
      proc[p].res = "InvalidToken"

\* while decode_token, the reader RoleCheck uses, accepts it with its account
C36_IssuedTokenDecodes ==
  \A c \in Issued :
    now <= c.value.exp =>
      (decode_token(c.value, now).ok /\ decode_token(c.value, now).claims.sub \in Users)

\* C37: a request the session resolver authenticated as an Admin account is
\* treated as Admin by RoleCheck and so admitted to the Admin-only route.
C37_AdminIsTreatedAsAdmin ==
  \A p \in Procs :
    (/\ proc[p].op = "RoleCheckMiddleware::call"
     /\ proc[p].pc = "done"
     /\ proc[p].awarded = {"admin"}
     /\ db.role[proc[p].u] = "admin") =>
      (proc[p].kind = "admin" /\ proc[p].res = "admitted")

\* the part that holds: no request is admitted to the Admin-only route without
\* a token that decodes to the Admin role; as the code stands none is admitted
C37_AdminRouteAdmitsNobody ==
  \A p \in Procs :
    (/\ proc[p].op = "RoleCheckMiddleware::call"
     /\ proc[p].pc = "done"
     /\ proc[p].awarded = {"admin"}) =>
      proc[p].res = "403"

\* the calls for a pair that have not committed yet
Uncommitted(k) ==
  {p \in Procs : /\ proc[p].op = "increment_user_stat"
                 /\ proc[p].pc \in {"ius_upsert", "ius_commit"}
                 /\ <<proc[p].u, proc[p].x>> = k}

\* C38: increment_user_stat loses no update: the stored values count the calls
\* that committed, a pair has a row exactly when it has been counted, and the
\* calls return distinct values between 1 and the stored value they leave.
C38_NoLostUpdate ==
  /\ SumOver([k \in Users \X StatTypes |-> db.user_stats[k].value + Cardinality(Uncommitted(k))],
             Users \X StatTypes) = ops
  /\ \A k \in Users \X StatTypes : db.user_stats[k].exists <=> db.user_stats[k].value >= 1
  /\ \A p \in Procs :
       (proc[p].op = "increment_user_stat" /\ proc[p].pc = "done") =>
         proc[p].ret \in 1..db.user_stats[<<proc[p].u, proc[p].x>>].value
  /\ \A p, q \in Procs :
       (/\ p # q
        /\ proc[p].op = "increment_user_stat" /\ proc[q].op = "increment_user_stat"
        /\ proc[p].pc \in {"ius_commit", "done"} /\ proc[q].pc \in {"ius_commit", "done"}
        /\ proc[p].u = proc[q].u /\ proc[p].x = proc[q].x) =>
         proc[p].ret # proc[q].ret

\* a call for a counted pair has written and not yet committed while another
\* call for the pair waits for it
C38_Witness ==
  \E p, q \in Procs :
    /\ proc[p].op = "increment_user_stat" /\ proc[p].pc = "ius_commit"
    /\ proc[q].op = "increment_user_stat" /\ proc[q].pc = "ius_upsert"
    /\ proc[p].u = proc[q].u /\ proc[p].x = proc[q].x
    /\ db.user_stats[<<proc[p].u, proc[p].x>>].value = 1
    /\ proc[p].ret = 2

\* C39: reset_password with the token forgot_password stored for an account,
\* while the token has not expired, succeeds.
C39_LiveTokenResetsPassword ==
  \A p \in Procs :
    (proc[p].op = "reset_password" /\ proc[p].pc = "done" /\ proc[p].b) =>
      proc[p].res = "200"

\* what the code does instead: a stored token is answered 400 every time
C39_StoredTokenIsRefused ==
  \A p \in Procs :
    (proc[p].op = "reset_password" /\ proc[p].pc = "done" /\ proc[p].x \in ResetTokens) =>
      proc[p].res = "400"

\* and no reset_password clears a token: a token is only ever replaced
C39_TokenIsNeverCleared ==
  [][\A u \in Users : db.verification_token[u] # NONE => db'.verification_token[u] # NONE]_vars

====
